---- MODULE Spec2Model ----
(***************************************************************************)
(* A model of shortly-be: the URL service (allocation of short codes,      *)
(* resolution with click recording, deletion, expiry update) over the      *)
(* PostgreSQL store and the Redis cache, and the per-IP rate limiter.      *)
(*                                                                         *)
(* Every store statement and every cache call is one step of the request   *)
(* worker that issues it, so that workers interleave between calls as the  *)
(* goroutines of the server do.  Time is in whole seconds for the URL      *)
(* service and in milliseconds for the rate limiter.  For the urls table    *)
(* the database session is taken to run in UTC, so that NOW() AT TIME ZONE *)
(* 'UTC' is the clock; the analytics query is run under each of several    *)
(* session time zones.                                                     *)
(***************************************************************************)
EXTENDS Integers, Sequences, FiniteSets, Bags, TLC

(***************************************************************************)
(* Bounds of the model.                                                    *)
(***************************************************************************)
\* operations one run starts, over all workers
MaxOps == 3
MaxRaceOps == 2
\* operations one run starts while the cache client may fail
MaxCacheOps == 3
\* requests one run starts when callers ask about links of others
MaxOwnerOps == 3
\* requests one run starts when every click is to be recorded
MaxRecordOps == 3
\* requests one run starts when the store may fail the recording of a click
MaxFaultOps == 3
\* requests one run starts when a code is deleted and allocated again
MaxReuseOps == 4
\* allocations one run starts when codes of every kind are supplied
MaxValidateOps == 2
\* requests one run starts when expiry times on both sides of the limit are supplied
MaxExpiryOps == 2
\* click events in url_clicks when the analytics are asked for
MaxEvents == 3
\* requests made of the rate limiter, with and without the sweeper running
MaxRequests == 8
MaxSweepRequests == 6
\* clock ticks between requests, with and without the sweeper running, and sweeps
MaxTicks == 2
MaxSweepTicks == 1
\* requests of handlers that race for one identity's bucket
MaxLookupRequests == 4
\* requests of an identity that outruns its bucket and is then swept
MaxIdleRequests == 7
\* requests of an identity whose admits are counted over every interval
MaxBoundRequests == 6
\* a slow limiter: thousandths of a token per second, and its burst
SlowRate == 1
SlowBurst == 2
\* requests made of a limiter built from the environment
MaxConfigRequests == 2
MaxSweeps == 3
\* the limiter modelled: rate.Limit(2) tokens per second, bursts of 5
rps == 2
burst == 5
\* seconds the clock of the URL service may advance by single steps
MaxNow == 2

(***************************************************************************)
(* Program constants.                                                      *)
(***************************************************************************)
\* validateCustomShortCode: len(shortCode) < 3 is rejected
MinCodeLen == 3
\* validateCustomShortCode: len(shortCode) > 20 is rejected
MaxCodeLen == 20
\* urls.short_code VARCHAR(10)
ShortCodeColumnLen == 10
\* generateShortCode: encoded[:8]
GeneratedLen == 8
\* CreateShortURL: maxAttempts := 10
maxAttempts == 10
\* CreateShortURL / UpdateExpiresAt: time.Now().Add(-2*time.Second)
SkewSeconds == 2
\* cache.Set(..., "available", 30*time.Second)
AvailableTTL == 30
\* cache.Set(..., "taken", 1*time.Hour) and SetJSON(..., 1*time.Hour)
TakenTTL == 3600
URLCacheTTL == 3600
\* cleanupVisitors: time.Sleep(5 * time.Minute), in milliseconds
SweepMs == 300000
\* cleanupVisitors: time.Since(v.lastSeen) > 10*time.Minute, in milliseconds
IdleMs == 600000

(***************************************************************************)
(* Strings are sequences of one-character strings.                         *)
(***************************************************************************)
Rep(ch, n) == [i \in 1..n |-> ch]

UpperChars == <<"A","B","C","D","E","F","G","H","I","J","K","L","M",
                "N","O","P","Q","R","S","T","U","V","W","X","Y","Z">>
LowerChars == <<"a","b","c","d","e","f","g","h","i","j","k","l","m",
                "n","o","p","q","r","s","t","u","v","w","x","y","z">>
DigitChars == <<"0","1","2","3","4","5","6","7","8","9">>

Range(s) == {s[i] : i \in DOMAIN s}

\* the character class [a-zA-Z0-9_-] of the regular expression
CodeCharset == Range(UpperChars) \cup Range(LowerChars) \cup Range(DigitChars) \cup {"_", "-"}

\* strings.ToLower on one character
ToLowerChar(ch) ==
    IF \E i \in DOMAIN UpperChars : UpperChars[i] = ch
    THEN LowerChars[CHOOSE i \in DOMAIN UpperChars : UpperChars[i] = ch]
    ELSE ch

ToLower(s) == [i \in DOMAIN s |-> ToLowerChar(s[i])]

\* strings.TrimSpace: leading and trailing white space removed
RECURSIVE TrimLeft(_)
TrimLeft(s) == IF Len(s) > 0 /\ Head(s) = " " THEN TrimLeft(Tail(s)) ELSE s

RECURSIVE TrimRight(_)
TrimRight(s) ==
    IF Len(s) > 0 /\ s[Len(s)] = " " THEN TrimRight(SubSeq(s, 1, Len(s) - 1)) ELSE s

TrimSpace(s) == TrimRight(TrimLeft(s))

reservedCodes ==
    { <<"a","d","m","i","n">>, <<"a","p","i">>, <<"w","w","w">>, <<"m","a","i","l">>,
      <<"f","t","p">>, <<"l","o","c","a","l","h","o","s","t">>,
      <<"h","e","a","l","t","h">>, <<"a","u","t","h">>, <<"l","o","g","i","n">>,
      <<"r","e","g","i","s","t","e","r">>, <<"s","i","g","n","i","n">>,
      <<"s","i","g","n","u","p">>, <<"s","i","g","n","o","u","t">>,
      <<"l","o","g","o","u","t">>, <<"s","h","o","r","t","e","n">>,
      <<"u","r","l","s">>, <<"u","r","l">>, <<"s","t","a","t","s">>,
      <<"a","n","a","l","y","t","i","c","s">>, <<"r","e","d","i","r","e","c","t">> }

\* a validation that knows no reserved words
validateCustomShortCodeUnreserved(shortCode) ==
    IF Len(shortCode) < MinCodeLen THEN "too short"
    ELSE IF Len(shortCode) > MaxCodeLen THEN "too long"
    ELSE IF ~ (\A i \in DOMAIN shortCode : shortCode[i] \in CodeCharset) THEN "bad format"
    ELSE ""

\* a validation that takes 20 characters for too long
validateCustomShortCodeBelow(shortCode) ==
    IF Len(shortCode) < MinCodeLen THEN "too short"
    ELSE IF Len(shortCode) >= MaxCodeLen THEN "too long"
    ELSE IF ~ (\A i \in DOMAIN shortCode : shortCode[i] \in CodeCharset) THEN "bad format"
    ELSE IF ToLower(shortCode) \in reservedCodes THEN "reserved"
    ELSE ""

\* validateCustomShortCode: "" when the code passes, the error otherwise
validateCustomShortCode(shortCode) ==
    IF Len(shortCode) < MinCodeLen THEN "too short"
    ELSE IF Len(shortCode) > MaxCodeLen THEN "too long"
    ELSE IF ~ (\A i \in DOMAIN shortCode : shortCode[i] \in CodeCharset) THEN "bad format"
    ELSE IF ToLower(shortCode) \in reservedCodes THEN "reserved"
    ELSE ""

(***************************************************************************)
(* Values.                                                                 *)
(***************************************************************************)
\* a *time.Time: nil, or an instant in seconds
NilTime == [isNil |-> TRUE, t |-> 0]
At(t) == [isNil |-> FALSE, t |-> t]

\* a request's expires_at, as an offset from the clock at the time it is made
\* (<<>>: no expires_at; <<k>>: k seconds from now)
ExpiryAt(now, off) == IF off = <<>> THEN NilTime ELSE At(now + off[1])

\* an expiry validation that also rejects the instant 2 seconds ago
expiresInPastInclusive(expiresAt, now) == ~ expiresAt.isNil /\ expiresAt.t <= now - SkewSeconds

\* req.ExpiresAt != nil && req.ExpiresAt.Before(time.Now().Add(-2*time.Second))
expiresInPast(expiresAt, now) == ~ expiresAt.isNil /\ expiresAt.t < now - SkewSeconds

\* the row the INSERT of Create returns
NewURL(id, shortCode, originalURL, userID, expiresAt) ==
    [ id |-> id, short_code |-> shortCode, original_url |-> originalURL,
      user_id |-> userID, click_count |-> 0, expires_at |-> expiresAt ]

\* expires_at IS NULL OR expires_at > (NOW() AT TIME ZONE 'UTC')
NotExpired(row, now) == row.expires_at.isNil \/ row.expires_at.t > now

\* a query that also finds the rows that have expired
FindByShortCodeAny(rows, shortCode, now) == {r \in rows : r.short_code = shortCode}

\* the rows SELECT ... WHERE short_code = $1 AND (not expired) of FindByShortCode finds
FindByShortCode(rows, shortCode, now) ==
    {r \in rows : r.short_code = shortCode /\ NotExpired(r, now)}

\* a WHERE clause without the user_id
OwnedRowsAnyone(rows, shortCode, userID) == {r \in rows : r.short_code = shortCode}

\* the rows WHERE short_code = $1 [AND user_id = $2] of GetStats, Delete, UpdateExpiresAt
OwnedRows(rows, shortCode, userID) ==
    {r \in rows : r.short_code = shortCode /\ (userID = "nil" \/ r.user_id = userID)}

\* the INSERT as it would fail were short_code not UNIQUE
CreateErrorNoUnique(rows, shortCode) ==
    IF Len(shortCode) > ShortCodeColumnLen THEN "value too long" ELSE ""

\* what the INSERT of Create fails with: the column's length, then the UNIQUE constraint
CreateError(rows, shortCode) ==
    IF Len(shortCode) > ShortCodeColumnLen THEN "value too long"
    ELSE IF \E r \in rows : r.short_code = shortCode
         THEN "duplicate key value violates unique constraint"
         ELSE ""

\* strings.Contains(err.Error(), "unique") || strings.Contains(err.Error(), "duplicate")
IsUniqueViolation(err) == err = "duplicate key value violates unique constraint"

(***************************************************************************)
(* The cache: key -> entry, an entry being a value with the instant its    *)
(* TTL ends.  Redis no longer returns an entry whose TTL has ended.        *)
(***************************************************************************)
NoEntry == [present |-> FALSE]
Entry(val, now, ttl) == [present |-> TRUE, val |-> val, until |-> now + ttl]

\* fmt.Sprintf("url:%s", shortCode) and fmt.Sprintf("shortcode:exists:%s", shortCode)
urlCacheKey(shortCode) == <<"url", shortCode>>
cacheKey(shortCode) == <<"shortcode:exists", shortCode>>

CacheHas(c, key, now) == c[key].present /\ c[key].until > now

\* json.Marshal of a *time.Time: null, or an RFC 3339 string
MarshalTime(expiresAt) ==
    IF expiresAt.isNil THEN [json |-> "null"]
    ELSE [json |-> "string", rfc3339 |-> expiresAt.t]

\* urlCacheData: the map SetJSON stores under url:<code>
urlCacheData(url) ==
    [original_url |-> url.original_url, expires_at |-> MarshalTime(url.expires_at)]

\* a reading that never compares the cached expires_at with the clock
cachedStateTrusting(data, now) ==
    IF data.original_url = "" THEN "unusable" ELSE "valid"

\* GetOriginalURL's reading of a cached map: "expired", "valid" or "unusable"
\* (unusable: the map has no usable original_url or expires_at, the store is asked)
cachedState(data, now) ==
    IF data.original_url = "" THEN "unusable"
    ELSE IF data.expires_at.json = "null" THEN "valid"
    ELSE IF data.expires_at.rfc3339 < now THEN "expired"
    ELSE "valid"

(***************************************************************************)
(* The universe of the model: codes, targets, users, request workers.      *)
(***************************************************************************)
\* "aaa": passes validation and fits the column
CodeA == Rep("a", 3)
\* 11 characters: passes validation, exceeds short_code VARCHAR(10)
CodeLong == Rep("a", 11)
\* "Api": reserved, whatever the case
CodeReserved == <<"A", "p", "i">>
\* " aaa": CodeA once trimmed
CodeSpaced == <<" ", "a", "a", "a">>
\* the longest code that passes validation, and one of every kind of character
CodeMax == Rep("a", MaxCodeLen)
CodeMixed == <<"Z", "_", "-", "9">>
\* codes that break one rule each: 2 characters, 21, a dot, blanks only
CodeShort == Rep("a", MinCodeLen - 1)
CodeOver == Rep("a", MaxCodeLen + 1)
CodeDotted == <<"a", ".", "b">>
CodeBlank == Rep(" ", 3)
\* what generateShortCode may return: any 8 characters of the URL-safe alphabet
GenA == Rep("b", GeneratedLen)
GenReserved == <<"r","e","d","i","r","e","c","t">>
GenCodes == {GenA, GenReserved}

\* every code a store row or a cache key may carry
Codes == {CodeA, CodeLong, CodeReserved, CodeMax, CodeMixed, GenA, GenReserved}

Targets == {"https://t1", "https://t2"}
Users == {"u1", "u2"}
Procs == {1, 2}

\* a request without short_code (nil or ""): the generation path
NoCode == <<>>

VARIABLES
    urls,        \* table urls: a set of rows
    url_clicks,  \* table url_clicks: the rows in insertion order
    nextId,      \* the next uuid_generate_v4()
    cache,       \* Redis: key -> entry
    cacheClient, \* s.cache: "ok", "failing" (Redis is unreachable for now), "broken"
                 \* (every call returns an error, for ever) or "nil"
    now,         \* the clock, in seconds
    tasks,       \* the goroutines started by GetOriginalURL on a cache hit (a bag)
    pc,          \* per worker: the call it is about to make
    req,         \* per worker: the request it serves (kept after the response)
    loc,         \* per worker: its local variables
    res,         \* per worker: the response of its last request
    ops,         \* requests that may still be started
    pre,         \* per worker: what held when its request started (history)
    hist         \* per code: what happened to it (history)

svcVars == <<urls, url_clicks, nextId, cache, cacheClient, now, tasks, pc, req, loc, res, ops, pre, hist>>

\* one middleware.RateLimiter, and the environment of the process that built it
VARIABLES
    environ,     \* os.Getenv: variable -> value, the empty string when unset
    rl,          \* the route class the limiter guards, rl.rate and rl.burst
    clock,       \* the clock of the rate limiter, in milliseconds
    visitors,    \* rl.visitors: ip -> visitor
    limiters,    \* the *rate.Limiter objects created so far
    held,        \* per handler: the limiter getVisitor returned to it
    nextSweep,   \* the instant the time.Sleep of cleanupVisitors ends
    seen,        \* per ip: the requests made of its current bucket (history)
    left         \* the requests, clock ticks and sweeps that may still happen

rlVars == <<environ, rl, clock, visitors, limiters, held, nextSweep, seen, left>>

NoLoc == [code |-> NoCode, i |-> 0, url |-> NewURL(0, NoCode, "", "nil", NilTime), urlID |-> 0]
NoReq == [op |-> "none", short_code |-> NoCode, url |-> "", user |-> "nil", expires_at |-> NilTime]
NoRes == [kind |-> "none", short_code |-> NoCode, url |-> ""]
NoPre == [hadRow |-> FALSE, live |-> FALSE, gone |-> TRUE, urlCached |-> FALSE, sentinel |-> "absent",
          afterDelete |-> "no", off |-> <<>>, raced |-> FALSE, owned |-> FALSE, made |-> 0,
          cascaded |-> 0]

Result(kind, code, url) == [kind |-> kind, short_code |-> code, url |-> url]

\* the sentinel of a code as a reader sees it: "taken", "available" or "absent"
Sentinel(c, code, t) == IF CacheHas(c, cacheKey(code), t) THEN c[cacheKey(code)].val ELSE "absent"

\* what holds for `code` when a request about it starts
Snapshot(code, off) ==
    IF code \notin Codes THEN [NoPre EXCEPT !.off = off, !.made = nextId - 1]
    ELSE [ hadRow |-> \E r \in urls : r.short_code = code,
           live |-> FindByShortCode(urls, code, now) # {},
           gone |-> \A r \in urls : r.short_code = code =>
                       ~ r.expires_at.isNil /\ r.expires_at.t < now,
           urlCached |-> CacheHas(cache, urlCacheKey(code), now),
           sentinel |-> Sentinel(cache, code, now),
           afterDelete |-> hist[code].deleted,
           off |-> off,
           raced |-> FALSE,
           owned |-> FALSE,
           made |-> nextId - 1,
           cascaded |-> 0 ]

\* the caller has a row of the code when the request starts
Owns(code, userID) == \E r \in urls : r.short_code = code /\ r.user_id = userID

\* what a read of the cache sees: s.cache is skipped when nil, and an Exists, Get or
\* GetJSON that returns an error is treated as a miss
Readable ==
    IF cacheClient = "ok" THEN cache ELSE [k \in DOMAIN cache |-> NoEntry]

\* what a write leaves: s.cache is skipped when nil, and the error of a Set, SetJSON
\* or Delete is dropped
Written(c) == IF cacheClient = "ok" THEN c ELSE cache

\* the service as NewURLService returns it, over an empty store
NewURLService(budget, clients) ==
    /\ cacheClient \in clients
    /\ urls = {}
    /\ url_clicks = <<>>
    /\ nextId = 1
    /\ cache = [k \in {"url", "shortcode:exists"} \X Codes |-> NoEntry]
    /\ now = 0
    /\ tasks = EmptyBag
    /\ pc = [p \in Procs |-> "idle"]
    /\ req = [p \in Procs |-> NoReq]
    /\ loc = [p \in Procs |-> NoLoc]
    /\ res = [p \in Procs |-> NoRes]
    /\ ops = budget
    /\ pre = [p \in Procs |-> NoPre]
    /\ hist = [c \in Codes |-> [issued |-> "", deleted |-> "no"]]

SvcInit(budget) == NewURLService(budget, {"ok"})

\* what stays of a request once it is answered: the operation and the code
Kept(r) == [NoReq EXCEPT !.op = r.op, !.short_code = r.short_code]

\* the worker answers request r with a: its locals die, the response stays
Answer(p, r, a) ==
    /\ pc' = [pc EXCEPT ![p] = "idle"]
    /\ loc' = [loc EXCEPT ![p] = NoLoc]
    /\ res' = [res EXCEPT ![p] = a]
    /\ req' = [req EXCEPT ![p] = Kept(r)]

Respond(p, a) == Answer(p, req[p], a)

\* the worker takes request r and goes on to `label` with locals l
Begin(p, r, label, l) ==
    /\ pc' = [pc EXCEPT ![p] = label]
    /\ loc' = [loc EXCEPT ![p] = l]
    /\ res' = [res EXCEPT ![p] = NoRes]
    /\ req' = [req EXCEPT ![p] = r]

\* the worker goes on to `label` with locals l
Step(p, label, l) ==
    /\ pc' = [pc EXCEPT ![p] = label]
    /\ loc' = [loc EXCEPT ![p] = l]
    /\ UNCHANGED <<req, res>>

(***************************************************************************)
(* urlService.CreateShortURL                                               *)
(***************************************************************************)
\* expiry validation, validateCustomShortCode or the first generateShortCode
StartCreate(p, codes, targets, owners, offs, gens) ==
    /\ pc[p] = "idle"
    /\ ops > 0
    /\ \E sc \in codes, u \in targets, usr \in owners, off \in offs :
       \E g \in (IF sc = NoCode THEN gens ELSE {TrimSpace(sc)}) :
          LET r == [op |-> "create", short_code |-> sc, url |-> u, user |-> usr,
                    expires_at |-> ExpiryAt(now, off)]
              others == {q \in Procs \ {p} : pc[q] # "idle" /\ req[q].op = "create"
                                                 /\ loc[q].code = g}
          IN /\ pre' = [q \in Procs |->
                           IF q = p THEN [Snapshot(g, off) EXCEPT !.raced = others # {}]
                           ELSE IF q \in others THEN [pre[q] EXCEPT !.raced = TRUE]
                           ELSE pre[q]]
             /\ IF expiresInPast(r.expires_at, now)
                THEN Answer(p, r, Result("ValidationError", NoCode, ""))
                ELSE IF sc # NoCode /\ validateCustomShortCode(g) # ""
                THEN Answer(p, r, Result("ValidationError", NoCode, ""))
                ELSE Begin(p, r, "a_exists", [NoLoc EXCEPT !.code = g])
    /\ ops' = ops - 1
    /\ UNCHANGED <<urls, url_clicks, nextId, cache, now, tasks, hist, cacheClient, rlVars>>

\* a generation path that retries without counting its attempts
UnavailableForever(p, gens) ==
    IF req[p].short_code # NoCode
    THEN Respond(p, Result("ConflictError", NoCode, ""))
    ELSE \E g \in gens : Step(p, "a_exists", [loc[p] EXCEPT !.code = g])

\* the code is not available: the custom path answers, the generation path retries
Unavailable(p, gens) ==
    IF req[p].short_code # NoCode
    THEN Respond(p, Result("ConflictError", NoCode, ""))
    ELSE IF loc[p].i = maxAttempts - 1
    THEN Respond(p, Result("AllocationExhausted", NoCode, ""))
    ELSE \E g \in gens :
            Step(p, "a_exists", [loc[p] EXCEPT !.code = g, !.i = loc[p].i + 1])

\* a checkShortCodeAvailability that returns the error of s.cache.Exists
AllocExistsStrict(p) ==
    /\ pc[p] = "a_exists"
    /\ IF cacheClient \in {"failing", "broken"}
       THEN Respond(p, Result("StoreError", NoCode, ""))
       ELSE Step(p, IF CacheHas(Readable, cacheKey(loc[p].code), now) THEN "a_get" ELSE "a_find",
                 loc[p])
    /\ UNCHANGED <<urls, url_clicks, nextId, cache, now, tasks, ops, pre, hist, cacheClient, rlVars>>

\* checkShortCodeAvailability: s.cache.Exists
AllocExists(p) ==
    /\ pc[p] = "a_exists"
    /\ Step(p, IF CacheHas(Readable, cacheKey(loc[p].code), now) THEN "a_get" ELSE "a_find", loc[p])
    /\ UNCHANGED <<urls, url_clicks, nextId, cache, now, tasks, ops, pre, hist, cacheClient, rlVars>>

\* a check that takes the word of an "available" sentinel
AllocGetTrusting(p, gens) ==
    /\ pc[p] = "a_get"
    /\ IF Sentinel(Readable, loc[p].code, now) = "taken"
       THEN Unavailable(p, gens)
       ELSE IF Sentinel(Readable, loc[p].code, now) = "available"
       THEN Step(p, "a_create", loc[p])
       ELSE Step(p, "a_find", loc[p])
    /\ UNCHANGED <<urls, url_clicks, nextId, cache, now, tasks, ops, pre, hist, cacheClient, rlVars>>

\* checkShortCodeAvailability: s.cache.Get and val == "taken"
AllocGet(p, gens) ==
    /\ pc[p] = "a_get"
    /\ IF Sentinel(Readable, loc[p].code, now) = "taken"
       THEN Unavailable(p, gens)
       ELSE Step(p, "a_find", loc[p])
    /\ UNCHANGED <<urls, url_clicks, nextId, cache, now, tasks, ops, pre, hist, cacheClient, rlVars>>

\* checkShortCodeAvailability: s.repo.FindByShortCode
AllocFind(p) ==
    /\ pc[p] = "a_find"
    /\ Step(p, IF FindByShortCode(urls, loc[p].code, now) = {} THEN "a_setAvail" ELSE "a_setTaken",
            loc[p])
    /\ UNCHANGED <<urls, url_clicks, nextId, cache, now, tasks, ops, pre, hist, cacheClient, rlVars>>

\* checkShortCodeAvailability: s.repo.FindByShortCode fails with an error that is not
\* "URL not found or expired" (the store is unreachable): return false, err
AllocFindError(p) ==
    /\ pc[p] = "a_find"
    /\ Respond(p, Result("StoreError", NoCode, ""))
    /\ UNCHANGED <<urls, url_clicks, nextId, cache, now, tasks, ops, pre, hist, cacheClient, rlVars>>

\* a check that keeps its "available" sentinel for an hour
AllocSetAvailableHour(p) ==
    /\ pc[p] = "a_setAvail"
    /\ cache' = Written([cache EXCEPT ![cacheKey(loc[p].code)] = Entry("available", now, TakenTTL)])
    /\ Step(p, "a_create", loc[p])
    /\ UNCHANGED <<urls, url_clicks, nextId, now, tasks, ops, pre, hist, cacheClient, rlVars>>

\* checkShortCodeAvailability: s.cache.Set(cacheKey, "available", 30*time.Second)
AllocSetAvailable(p) ==
    /\ pc[p] = "a_setAvail"
    /\ cache' = Written([cache EXCEPT ![cacheKey(loc[p].code)] = Entry("available", now, AvailableTTL)])
    /\ Step(p, "a_create", loc[p])
    /\ UNCHANGED <<urls, url_clicks, nextId, now, tasks, ops, pre, hist, cacheClient, rlVars>>

\* checkShortCodeAvailability: s.cache.Set(cacheKey, "taken", 1*time.Hour)
AllocSetTaken(p, gens) ==
    /\ pc[p] = "a_setTaken"
    /\ cache' = Written([cache EXCEPT ![cacheKey(loc[p].code)] = Entry("taken", now, TakenTTL)])
    /\ Unavailable(p, gens)
    /\ UNCHANGED <<urls, url_clicks, nextId, now, tasks, ops, pre, hist, cacheClient, rlVars>>

\* s.repo.Create: the INSERT
AllocCreate(p) ==
    /\ pc[p] = "a_create"
    /\ LET err == CreateError(urls, loc[p].code)
           row == NewURL(nextId, loc[p].code, req[p].url, req[p].user, req[p].expires_at)
       IN IF err = ""
          THEN /\ urls' = urls \cup {row}
               /\ nextId' = nextId + 1
               /\ hist' = [hist EXCEPT ![loc[p].code].deleted = "no"]
               /\ Step(p, "a_okTaken", [loc[p] EXCEPT !.url = row])
          ELSE IF IsUniqueViolation(err)
          THEN /\ Step(p, "a_dupTaken", loc[p])
               /\ UNCHANGED <<urls, nextId, hist>>
          ELSE /\ Respond(p, Result("StoreError", NoCode, ""))
               /\ UNCHANGED <<urls, nextId, hist>>
    /\ UNCHANGED <<url_clicks, cache, now, tasks, ops, pre, cacheClient, rlVars>>

\* after a uniqueness violation: s.cache.Set(cacheKey, "taken", 1*time.Hour)
AllocDupTaken(p) ==
    /\ pc[p] = "a_dupTaken"
    /\ cache' = Written([cache EXCEPT ![cacheKey(loc[p].code)] = Entry("taken", now, TakenTTL)])
    /\ Respond(p, Result("ConflictError", NoCode, ""))
    /\ UNCHANGED <<urls, url_clicks, nextId, now, tasks, ops, pre, hist, cacheClient, rlVars>>

\* after the insert: s.cache.Set(cacheKey, "taken", 1*time.Hour)
AllocOkTaken(p) ==
    /\ pc[p] = "a_okTaken"
    /\ cache' = Written([cache EXCEPT ![cacheKey(loc[p].code)] = Entry("taken", now, TakenTTL)])
    /\ Step(p, "a_okUrl", loc[p])
    /\ UNCHANGED <<urls, url_clicks, nextId, now, tasks, ops, pre, hist, cacheClient, rlVars>>

\* after the insert: s.cache.SetJSON(urlCacheKey, urlCacheData, 1*time.Hour), the response
AllocOkUrl(p) ==
    /\ pc[p] = "a_okUrl"
    /\ cache' = Written([cache EXCEPT ![urlCacheKey(loc[p].code)] =
                    Entry(urlCacheData(loc[p].url), now, URLCacheTTL)])
    /\ Respond(p, Result("ok", loc[p].url.short_code, loc[p].url.original_url))
    /\ hist' = [hist EXCEPT ![loc[p].code].issued = req[p].url]
    /\ UNCHANGED <<urls, url_clicks, nextId, now, tasks, ops, pre, cacheClient, rlVars>>

CreateShortURL(p, gens) ==
    \/ AllocExists(p) \/ AllocGet(p, gens) \/ AllocFind(p) \/ AllocSetAvailable(p)
    \/ AllocSetTaken(p, gens) \/ AllocCreate(p) \/ AllocDupTaken(p) \/ AllocOkTaken(p)
    \/ AllocOkUrl(p)

(***************************************************************************)
(* urlRepository.IncrementClickCount: three statements, no transaction.    *)
(***************************************************************************)
\* SELECT id FROM urls WHERE short_code = $1: the ids found (none: sql.ErrNoRows)
IncSelect(rows, shortCode) == {r.id : r \in {x \in rows : x.short_code = shortCode}}

\* an UPDATE that is lost
IncUpdateLost(rows, shortCode) == rows

\* UPDATE urls SET click_count = click_count + 1 WHERE short_code = $1
IncUpdate(rows, shortCode) ==
    {IF r.short_code = shortCode THEN [r EXCEPT !.click_count = r.click_count + 1] ELSE r
        : r \in rows}

\* an INSERT that keeps the latest click of a link only
IncInsertLatest(clicks, rows, urlID, t) ==
    IF \E r \in rows : r.id = urlID
    THEN Append(SelectSeq(clicks, LAMBDA e : e.url_id # urlID), [url_id |-> urlID, clicked_at |-> t])
    ELSE clicks

\* INSERT INTO url_clicks (url_id, clicked_at): url_id REFERENCES urls(id)
IncInsert(clicks, rows, urlID, t) ==
    IF \E r \in rows : r.id = urlID
    THEN Append(clicks, [url_id |-> urlID, clicked_at |-> t])
    ELSE clicks

(***************************************************************************)
(* urlService.GetOriginalURL                                               *)
(***************************************************************************)
\* a GetOriginalURL that, on a valid hit, records the click itself before it answers
StartResolveWaiting(p, codes) ==
    /\ pc[p] = "idle"
    /\ ops > 0
    /\ \E c \in codes :
          LET hit == CacheHas(Readable, urlCacheKey(c), now)
              state == IF hit THEN cachedState(cache[urlCacheKey(c)].val, now) ELSE "unusable"
              r == [NoReq EXCEPT !.op = "resolve", !.short_code = c]
          IN /\ pre' = [pre EXCEPT ![p] = Snapshot(c, <<>>)]
             /\ tasks' = tasks
             /\ IF state = "valid"
                THEN Begin(p, r, "r_sel",
                           [NoLoc EXCEPT !.code = c,
                               !.url.original_url = cache[urlCacheKey(c)].val.original_url])
                ELSE Begin(p, r, IF state = "expired" THEN "r_evict" ELSE "r_find",
                           [NoLoc EXCEPT !.code = c])
    /\ ops' = ops - 1
    /\ UNCHANGED <<urls, url_clicks, nextId, cache, now, hist, cacheClient, rlVars>>

\* s.cache.GetJSON(urlCacheKey) and, on a valid hit, the go func() and the answer
StartResolve(p, codes) ==
    /\ pc[p] = "idle"
    /\ ops > 0
    /\ \E c \in codes :
          LET hit == CacheHas(Readable, urlCacheKey(c), now)
              state == IF hit THEN cachedState(cache[urlCacheKey(c)].val, now) ELSE "unusable"
              r == [NoReq EXCEPT !.op = "resolve", !.short_code = c]
          IN /\ pre' = [pre EXCEPT ![p] = Snapshot(c, <<>>)]
             /\ IF state = "valid"
                THEN /\ tasks' = tasks (+) SetToBag({[code |-> c, at |-> "sel", urlID |-> 0]})
                     /\ Answer(p, r, Result("ok", c, cache[urlCacheKey(c)].val.original_url))
                ELSE /\ tasks' = tasks
                     /\ Begin(p, r, IF state = "expired" THEN "r_evict" ELSE "r_find",
                              [NoLoc EXCEPT !.code = c])
    /\ ops' = ops - 1
    /\ UNCHANGED <<urls, url_clicks, nextId, cache, now, hist, cacheClient, rlVars>>

\* the cached entry is expired: s.cache.Delete(urlCacheKey)
ResolveEvict(p) ==
    /\ pc[p] = "r_evict"
    /\ cache' = Written([cache EXCEPT ![urlCacheKey(loc[p].code)] = NoEntry])
    /\ Step(p, "r_find", loc[p])
    /\ UNCHANGED <<urls, url_clicks, nextId, now, tasks, ops, pre, hist, cacheClient, rlVars>>

\* s.repo.FindByShortCode
ResolveFind(p) ==
    /\ pc[p] = "r_find"
    /\ LET found == FindByShortCode(urls, loc[p].code, now)
       IN IF found = {}
          THEN Respond(p, Result("NotFoundError", NoCode, ""))
          ELSE Step(p, "r_cache", [loc[p] EXCEPT !.url = CHOOSE r \in found : TRUE])
    /\ UNCHANGED <<urls, url_clicks, nextId, cache, now, tasks, ops, pre, hist, cacheClient, rlVars>>

\* a GetOriginalURL that does not cache the row it read
ResolveCacheSkipped(p) ==
    /\ pc[p] = "r_cache"
    /\ Step(p, "r_sel", loc[p])
    /\ UNCHANGED <<urls, url_clicks, nextId, cache, now, tasks, ops, pre, hist, cacheClient, rlVars>>

\* s.cache.SetJSON(urlCacheKey, urlCacheData, 1*time.Hour)
ResolveCache(p) ==
    /\ pc[p] = "r_cache"
    /\ cache' = Written([cache EXCEPT ![urlCacheKey(loc[p].code)] =
                    Entry(urlCacheData(loc[p].url), now, URLCacheTTL)])
    /\ Step(p, "r_sel", loc[p])
    /\ UNCHANGED <<urls, url_clicks, nextId, now, tasks, ops, pre, hist, cacheClient, rlVars>>

\* a resolve that returns another column of the row
resolvedOwner(l) == Result("ok", l.code, l.url.user_id)

\* return url.OriginalURL, nil: the target of the row GetOriginalURL read
resolved(l) == Result("ok", l.code, l.url.original_url)

\* IncrementClickCount, synchronously: the SELECT (its error is logged, not returned)
ResolveSelect(p) ==
    /\ pc[p] = "r_sel"
    /\ LET ids == IncSelect(urls, loc[p].code)
       IN IF ids = {}
          THEN Respond(p, resolved(loc[p]))
          ELSE Step(p, "r_upd", [loc[p] EXCEPT !.urlID = CHOOSE i \in ids : TRUE])
    /\ UNCHANGED <<urls, url_clicks, nextId, cache, now, tasks, ops, pre, hist, cacheClient, rlVars>>

\* IncrementClickCount, synchronously: the UPDATE
ResolveUpdate(p) ==
    /\ pc[p] = "r_upd"
    /\ urls' = IncUpdate(urls, loc[p].code)
    /\ Step(p, "r_ins", loc[p])
    /\ UNCHANGED <<url_clicks, nextId, cache, now, tasks, ops, pre, hist, cacheClient, rlVars>>

\* IncrementClickCount, synchronously: the INSERT, then the answer
ResolveInsert(p) ==
    /\ pc[p] = "r_ins"
    /\ url_clicks' = IncInsert(url_clicks, urls, loc[p].urlID, now)
    /\ Respond(p, resolved(loc[p]))
    /\ UNCHANGED <<urls, nextId, cache, now, tasks, ops, pre, hist, cacheClient, rlVars>>

GetOriginalURL(p) ==
    \/ ResolveEvict(p) \/ ResolveFind(p) \/ ResolveCache(p)
    \/ ResolveSelect(p) \/ ResolveUpdate(p) \/ ResolveInsert(p)

\* a GetOriginalURL that returns the error of IncrementClickCount
afterRecordErrorReturned(p) == Respond(p, Result("StoreError", NoCode, ""))

\* IncrementClickCount returned an error: it is printed, and url.OriginalURL is returned
afterRecordError(p) == Respond(p, resolved(loc[p]))

\* IncrementClickCount, synchronously: the store fails the statement the worker is
\* about to run (the SELECT, the UPDATE or the INSERT); what ran before it stays
ResolveRecordError(p) ==
    /\ pc[p] \in {"r_sel", "r_upd", "r_ins"}
    /\ afterRecordError(p)
    /\ UNCHANGED <<urls, url_clicks, nextId, cache, now, tasks, ops, pre, hist, cacheClient, rlVars>>

(***************************************************************************)
(* The goroutine of the cache-hit path: IncrementClickCount, detached.     *)
(***************************************************************************)
Replace(t, u) == (tasks (-) SetToBag({t})) (+) SetToBag({u})

TaskSelect ==
    \E t \in BagToSet(tasks) :
        /\ t.at = "sel"
        /\ LET ids == IncSelect(urls, t.code)
           IN tasks' = IF ids = {}
                       THEN tasks (-) SetToBag({t})
                       ELSE Replace(t, [t EXCEPT !.at = "upd", !.urlID = CHOOSE i \in ids : TRUE])
        /\ UNCHANGED <<urls, url_clicks, nextId, cache, now, pc, req, loc, res, ops, pre, hist, cacheClient, rlVars>>

TaskUpdate ==
    \E t \in BagToSet(tasks) :
        /\ t.at = "upd"
        /\ urls' = IncUpdate(urls, t.code)
        /\ tasks' = Replace(t, [t EXCEPT !.at = "ins"])
        /\ UNCHANGED <<url_clicks, nextId, cache, now, pc, req, loc, res, ops, pre, hist, cacheClient, rlVars>>

\* a goroutine that ends without its INSERT
TaskInsertDropped ==
    \E t \in BagToSet(tasks) :
        /\ t.at = "ins"
        /\ tasks' = tasks (-) SetToBag({t})
        /\ UNCHANGED <<urls, url_clicks, nextId, cache, now, pc, req, loc, res, ops, pre, hist, cacheClient, rlVars>>

TaskInsert ==
    \E t \in BagToSet(tasks) :
        /\ t.at = "ins"
        /\ url_clicks' = IncInsert(url_clicks, urls, t.urlID, now)
        /\ tasks' = tasks (-) SetToBag({t})
        /\ UNCHANGED <<urls, nextId, cache, now, pc, req, loc, res, ops, pre, hist, cacheClient, rlVars>>

IncrementClickCount == TaskSelect \/ TaskUpdate \/ TaskInsert

\* the store fails a statement of the detached IncrementClickCount: the goroutine
\* prints the error and ends
TaskError ==
    \E t \in BagToSet(tasks) :
        /\ tasks' = tasks (-) SetToBag({t})
        /\ UNCHANGED <<urls, url_clicks, nextId, cache, now, pc, req, loc, res, ops, pre, hist, cacheClient, rlVars>>

(***************************************************************************)
(* urlService.DeleteURL                                                    *)
(***************************************************************************)
\* what the deletion leaves of url_clicks: url_id ... ON DELETE CASCADE
Cascade(clicks, gone) == SelectSeq(clicks, LAMBDA e : ~ \E r \in gone : r.id = e.url_id)

\* s.repo.Delete: DELETE FROM urls WHERE short_code = $1 AND user_id = $2
StartDelete(p, codes, users) ==
    /\ pc[p] = "idle"
    /\ ops > 0
    /\ \E c \in codes, usr \in users :
          LET gone == OwnedRows(urls, c, usr)
              r == [NoReq EXCEPT !.op = "delete", !.short_code = c, !.user = usr]
          IN /\ pre' = [pre EXCEPT ![p] = [Snapshot(c, <<>>) EXCEPT
                               !.owned = Owns(c, usr),
                               !.cascaded = Len(url_clicks) - Len(Cascade(url_clicks, gone))]]
             /\ IF gone = {}
                THEN /\ Answer(p, r, Result("NotFoundError", NoCode, ""))
                     /\ UNCHANGED <<urls, url_clicks, hist>>
                ELSE /\ urls' = urls \ gone
                     /\ url_clicks' = Cascade(url_clicks, gone)
                     /\ hist' = [hist EXCEPT ![c].issued = "",
                                             ![c].deleted =
                                   IF CacheHas(cache, urlCacheKey(c), now)
                                      /\ Sentinel(cache, c, now) = "taken"
                                   THEN "populated" ELSE "plain"]
                     /\ Begin(p, r, "d_url", [NoLoc EXCEPT !.code = c])
    /\ ops' = ops - 1
    /\ UNCHANGED <<nextId, cache, now, tasks, cacheClient, rlVars>>

\* a DeleteURL that leaves url:<code> in the cache
DeleteKeepURL(p) ==
    /\ pc[p] = "d_url"
    /\ Step(p, "d_sentinel", loc[p])
    /\ UNCHANGED <<urls, url_clicks, nextId, cache, now, tasks, ops, pre, hist, cacheClient, rlVars>>

\* s.cache.Delete(urlCacheKey)
DeleteEvictURL(p) ==
    /\ pc[p] = "d_url"
    /\ cache' = Written([cache EXCEPT ![urlCacheKey(loc[p].code)] = NoEntry])
    /\ Step(p, "d_sentinel", loc[p])
    /\ UNCHANGED <<urls, url_clicks, nextId, now, tasks, ops, pre, hist, cacheClient, rlVars>>

\* a DeleteURL that leaves shortcode:exists:<code> in the cache
DeleteKeepSentinel(p) ==
    /\ pc[p] = "d_sentinel"
    /\ Respond(p, Result("ok", loc[p].code, ""))
    /\ UNCHANGED <<urls, url_clicks, nextId, cache, now, tasks, ops, pre, hist, cacheClient, rlVars>>

\* s.cache.Delete(cacheKey), return nil
DeleteEvictSentinel(p) ==
    /\ pc[p] = "d_sentinel"
    /\ cache' = Written([cache EXCEPT ![cacheKey(loc[p].code)] = NoEntry])
    /\ Respond(p, Result("ok", loc[p].code, ""))
    /\ UNCHANGED <<urls, url_clicks, nextId, now, tasks, ops, pre, hist, cacheClient, rlVars>>

DeleteURL(p) == DeleteEvictURL(p) \/ DeleteEvictSentinel(p)

(***************************************************************************)
(* urlService.UpdateExpiresAt                                              *)
(***************************************************************************)
\* an UPDATE that also sets click_count to 0
SetExpiresAtReset(rows, shortCode, userID, expiresAt) ==
    {IF r \in OwnedRows(rows, shortCode, userID)
     THEN [r EXCEPT !.expires_at = expiresAt, !.click_count = 0] ELSE r
        : r \in rows}

\* the rows after UPDATE urls SET expires_at = $1 WHERE short_code = $2 AND user_id = $3
SetExpiresAt(rows, shortCode, userID, expiresAt) ==
    {IF r \in OwnedRows(rows, shortCode, userID) THEN [r EXCEPT !.expires_at = expiresAt] ELSE r
        : r \in rows}

\* the expiry validation, then s.repo.UpdateExpiresAt
UpdateExpiresAt(p, codes, users, offs) ==
    /\ pc[p] = "idle"
    /\ ops > 0
    /\ \E c \in codes, usr \in users, off \in offs :
          LET e == ExpiryAt(now, off)
              r == [NoReq EXCEPT !.op = "update", !.short_code = c, !.user = usr,
                                 !.expires_at = e]
          IN /\ pre' = [pre EXCEPT ![p] =
                            [Snapshot(c, off) EXCEPT !.owned = Owns(c, usr)]]
             /\ IF expiresInPast(e, now)
                THEN Answer(p, r, Result("ValidationError", NoCode, "")) /\ urls' = urls
                ELSE IF OwnedRows(urls, c, usr) = {}
                THEN Answer(p, r, Result("NotFoundError", NoCode, "")) /\ urls' = urls
                ELSE /\ urls' = SetExpiresAt(urls, c, usr, e)
                     /\ Answer(p, r, Result("ok", c, ""))
    /\ ops' = ops - 1
    /\ UNCHANGED <<url_clicks, nextId, cache, now, tasks, hist, cacheClient, rlVars>>

(***************************************************************************)
(* urlService.GetURLStats                                                  *)
(***************************************************************************)
\* the URLStatsResponse made of the row GetStats found
URLStatsResponse(url) ==
    [kind |-> "ok", short_code |-> url.short_code, url |-> url.original_url,
     click_count |-> url.click_count, expires_at |-> url.expires_at]

\* s.repo.GetStats, then the response
GetURLStats(p, codes, users) ==
    /\ pc[p] = "idle"
    /\ ops > 0
    /\ \E c \in codes, usr \in users :
          LET found == OwnedRows(urls, c, usr)
              r == [NoReq EXCEPT !.op = "stats", !.short_code = c, !.user = usr]
          IN /\ pre' = [pre EXCEPT ![p] = [Snapshot(c, <<>>) EXCEPT !.owned = Owns(c, usr)]]
             /\ Answer(p, r, IF found = {} THEN Result("NotFoundError", NoCode, "")
                             ELSE URLStatsResponse(CHOOSE x \in found : TRUE))
    /\ ops' = ops - 1
    /\ UNCHANGED <<urls, url_clicks, nextId, cache, now, tasks, hist, cacheClient, rlVars>>

(***************************************************************************)
(* The cache client: every method of cache.Cache returns the error of its  *)
(* Redis command, so a call fails for as long as Redis is unreachable.     *)
(***************************************************************************)
\* Redis becomes unreachable, or reachable again
Outage ==
    /\ cacheClient \in {"ok", "failing"}
    /\ cacheClient' = IF cacheClient = "ok" THEN "failing" ELSE "ok"
    /\ UNCHANGED <<urls, url_clicks, nextId, cache, now, tasks, pc, req, loc, res, ops, pre, hist,
                   rlVars>>

(***************************************************************************)
(* The clock.                                                              *)
(***************************************************************************)
Tick(steps) ==
    /\ now < MaxNow
    /\ \E d \in steps : now' = now + d
    /\ UNCHANGED <<urls, url_clicks, nextId, cache, tasks, pc, req, loc, res, ops, pre, hist, cacheClient, rlVars>>

(***************************************************************************)
(* middleware.RateLimiter over golang.org/x/time/rate.  Tokens are counted *)
(* in thousandths, so that rps tokens per second is rps thousandths per    *)
(* millisecond.  A request takes no time: the clock moves between requests.*)
(***************************************************************************)
\* n tokens, in thousandths
Tokens(n) == n * 1000

Min(S) == CHOOSE x \in S : \A y \in S : x <= y

\* rate.Limit(n): n tokens per second, a rate.Limit being counted in thousandths of a
\* token per second so that rates below one token per second can be told
Limit(n) == n * 1000

\* rate.NewLimiter(rl.rate, rl.burst): a bucket holding its burst
NewLimiter(r, b, t) == [limit |-> r, burst |-> b, tokens |-> Tokens(b), last |-> t]

\* the tokens, in thousandths, a rate of `limit` thousandths of a token per second
\* gives in d milliseconds: limit * d / 1000 rounded down, seconds and milliseconds
\* taken apart to keep the product small
Refill(limit, d) == limit * (d \div 1000) + (limit * (d % 1000)) \div 1000

\* a refill that knows no cap
advanceUncapped(lim, t) == lim.tokens + Refill(lim.limit, t - lim.last)

\* the tokens of lim at instant t: those it had, refilled at its rate, capped at its burst
advance(lim, t) ==
    Min({Tokens(lim.burst), lim.tokens + Refill(lim.limit, t - lim.last)})

\* an Allow that charges the bucket for a request it denies
AllowedCharging(lim, t) == [lim EXCEPT !.tokens = advance(lim, t) - Tokens(1), !.last = t]

\* an Allow that admits whatever the bucket holds
AllowAlways(lim, t) == TRUE

\* limiter.Allow() at instant t: the verdict, and the limiter after it
Allow(lim, t) == advance(lim, t) >= Tokens(1)
Allowed(lim, t) ==
    IF Allow(lim, t) THEN [lim EXCEPT !.tokens = advance(lim, t) - Tokens(1), !.last = t]
    ELSE lim

IPs == {"ip1", "ip2"}
Handlers == {1, 2}

NoVisitor == [exists |-> FALSE, limiter |-> 0, lastSeen |-> 0]
NoHeld == [ip |-> "", limiter |-> 0]
NoSeen == [buckets |-> 0, created |-> 0, n |-> 0, admits |-> <<>>, last |-> "none", at |-> 0,
           past |-> <<>>]

(***************************************************************************)
(* config.Load: the limits of the route classes, from the environment.     *)
(***************************************************************************)
\* strconv.Atoi and strconv.ParseFloat on an optional sign and decimal digits (the
\* values given to the variables here have no fraction and no exponent)
RECURSIVE Digits(_)
Digits(s) ==
    IF s = <<>> THEN 0
    ELSE 10 * Digits(SubSeq(s, 1, Len(s) - 1))
         + (CHOOSE d \in 0..9 : DigitChars[d + 1] = s[Len(s)])

ParseNumber(s) ==
    LET body == IF s # <<>> /\ Head(s) \in {"+", "-"} THEN Tail(s) ELSE s
    IN IF body = <<>> \/ \E i \in DOMAIN body : body[i] \notin Range(DigitChars)
       THEN [err |-> TRUE, val |-> 0]
       ELSE [err |-> FALSE,
             val |-> IF Head(s) = "-" THEN 0 - Digits(body) ELSE Digits(body)]

\* getEnvInt and getEnvFloat: the value when set and parsed, the default otherwise
getEnvInt(env, key, defaultValue) ==
    IF env[key] # <<>> /\ ~ ParseNumber(env[key]).err THEN ParseNumber(env[key]).val
    ELSE defaultValue

getEnvFloat(env, key, defaultValue) ==
    IF env[key] # <<>> /\ ~ ParseNumber(env[key]).err THEN ParseNumber(env[key]).val
    ELSE defaultValue

RateKeys ==
    { "RATE_LIMIT_RPS", "RATE_LIMIT_BURST", "RATE_LIMIT_AUTH_RPS", "RATE_LIMIT_AUTH_BURST",
      "RATE_LIMIT_SHORTEN_RPS", "RATE_LIMIT_SHORTEN_BURST" }

\* no variable is set
NoEnviron == [k \in RateKeys |-> <<>>]

\* config.Load: the fields of Config that limit rates
Load(env) ==
    [ RateLimitRPS |-> getEnvFloat(env, "RATE_LIMIT_RPS", 0),
      RateLimitBurst |-> getEnvInt(env, "RATE_LIMIT_BURST", 0),
      RateLimitAuthRPS |-> getEnvFloat(env, "RATE_LIMIT_AUTH_RPS", 0),
      RateLimitAuthBurst |-> getEnvInt(env, "RATE_LIMIT_AUTH_BURST", 0),
      RateLimitShortenRPS |-> getEnvFloat(env, "RATE_LIMIT_SHORTEN_RPS", 0),
      RateLimitShortenBurst |-> getEnvInt(env, "RATE_LIMIT_SHORTEN_BURST", 0) ]

RouteClasses == {"general", "auth", "shorten", "redirect"}

\* main: the rate and the burst given to NewRateLimiter for a route class
Limits(cfg, route) ==
    CASE route = "general" -> [rate |-> Limit(cfg.RateLimitRPS), burst |-> cfg.RateLimitBurst]
      [] route = "auth" -> [rate |-> Limit(cfg.RateLimitAuthRPS), burst |-> cfg.RateLimitAuthBurst]
      [] route = "shorten" ->
            [rate |-> Limit(cfg.RateLimitShortenRPS), burst |-> cfg.RateLimitShortenBurst]
      [] route = "redirect" -> [rate |-> Limit(30), burst |-> 60]

\* NewRateLimiter(r, b): its rate and burst, an empty map, and cleanupVisitors starts
\* its first sleep
NewRateLimiter(route, r, b, requests, ticks, sweeps) ==
    /\ rl = [route |-> route, rate |-> r, burst |-> b]
    /\ clock = 0
    /\ visitors = [ip \in IPs |-> NoVisitor]
    /\ limiters = <<>>
    /\ held = [h \in Handlers |-> NoHeld]
    /\ nextSweep = SweepMs
    /\ seen = [ip \in IPs |-> NoSeen]
    /\ left = [requests |-> requests, ticks |-> ticks, sweeps |-> sweeps]

\* the limiter the bounds describe, whatever the environment
RLInit(requests, ticks, sweeps) ==
    /\ environ = NoEnviron
    /\ NewRateLimiter("shorten", Limit(rps), burst, requests, ticks, sweeps)

\* a getVisitor that ignores the map and makes a limiter for every request
getVisitorAlways(h, ips) ==
    /\ held[h] = NoHeld
    /\ left.requests > 0
    /\ \E ip \in ips :
          /\ limiters' = Append(limiters, NewLimiter(rl.rate, rl.burst, clock))
          /\ visitors' = [visitors EXCEPT ![ip] =
                [exists |-> TRUE, limiter |-> Len(limiters) + 1, lastSeen |-> clock]]
          /\ seen' = IF visitors[ip].exists THEN seen
                     ELSE [seen EXCEPT ![ip] =
                             [NoSeen EXCEPT !.buckets = seen[ip].buckets + 1, !.created = clock,
                                            !.past = seen[ip].past \o seen[ip].admits]]
          /\ held' = [held EXCEPT ![h] = [ip |-> ip, limiter |-> Len(limiters) + 1]]
    /\ left' = [left EXCEPT !.requests = left.requests - 1]
    /\ UNCHANGED <<clock, nextSweep, environ, rl, svcVars>>

\* LimitMiddleware: rl.getVisitor(ip), under rl.mu
getVisitor(h, ips) ==
    /\ held[h] = NoHeld
    /\ left.requests > 0
    /\ \E ip \in ips :
          IF ~ visitors[ip].exists
          THEN /\ limiters' = Append(limiters, NewLimiter(rl.rate, rl.burst, clock))
               /\ visitors' = [visitors EXCEPT ![ip] =
                     [exists |-> TRUE, limiter |-> Len(limiters) + 1, lastSeen |-> clock]]
               /\ seen' = [seen EXCEPT ![ip] =
                             [NoSeen EXCEPT !.buckets = seen[ip].buckets + 1, !.created = clock,
                                            !.past = seen[ip].past \o seen[ip].admits]]
               /\ held' = [held EXCEPT ![h] = [ip |-> ip, limiter |-> Len(limiters) + 1]]
          ELSE /\ visitors' = [visitors EXCEPT ![ip].lastSeen = clock]
               /\ held' = [held EXCEPT ![h] = [ip |-> ip, limiter |-> visitors[ip].limiter]]
               /\ UNCHANGED <<limiters, seen>>
    /\ left' = [left EXCEPT !.requests = left.requests - 1]
    /\ UNCHANGED <<clock, nextSweep, environ, rl, svcVars>>

\* LimitMiddleware: limiter.Allow(), then 429 and c.Abort() or c.Next()
LimitMiddleware(h) ==
    /\ held[h] # NoHeld
    /\ LET lim == limiters[held[h].limiter]
           ip == held[h].ip
       IN /\ limiters' = [limiters EXCEPT ![held[h].limiter] = Allowed(lim, clock)]
          /\ seen' = [seen EXCEPT ![ip].n = @ + 1,
                                  ![ip].admits = IF Allow(lim, clock) THEN Append(@, clock) ELSE @,
                                  ![ip].last = IF Allow(lim, clock) THEN "admit" ELSE "deny",
                                  ![ip].at = clock]
    /\ held' = [held EXCEPT ![h] = NoHeld]
    /\ UNCHANGED <<clock, visitors, nextSweep, left, environ, rl, svcVars>>

\* a sweep that takes a visitor for old after one sleep of the sweeper
cleanupVisitorsEarly ==
    /\ clock = nextSweep
    /\ left.sweeps > 0
    /\ visitors' = [ip \in IPs |->
                      IF visitors[ip].exists /\ clock - visitors[ip].lastSeen > SweepMs
                      THEN NoVisitor ELSE visitors[ip]]
    /\ nextSweep' = clock + SweepMs
    /\ left' = [left EXCEPT !.sweeps = left.sweeps - 1]
    /\ UNCHANGED <<clock, limiters, held, seen, environ, rl, svcVars>>

\* a sweep that removes every visitor, idle or not
cleanupVisitorsAll ==
    /\ clock = nextSweep
    /\ left.sweeps > 0
    /\ visitors' = [ip \in IPs |-> NoVisitor]
    /\ nextSweep' = clock + SweepMs
    /\ left' = [left EXCEPT !.sweeps = left.sweeps - 1]
    /\ UNCHANGED <<clock, limiters, held, seen, environ, rl, svcVars>>

\* a sweep that removes nothing
cleanupVisitorsNone ==
    /\ clock = nextSweep
    /\ left.sweeps > 0
    /\ nextSweep' = clock + SweepMs
    /\ left' = [left EXCEPT !.sweeps = left.sweeps - 1]
    /\ UNCHANGED <<clock, visitors, limiters, held, seen, environ, rl, svcVars>>

\* cleanupVisitors: the sleep is over, the idle visitors go, the next sleep starts
cleanupVisitors ==
    /\ clock = nextSweep
    /\ left.sweeps > 0
    /\ visitors' = [ip \in IPs |->
                      IF visitors[ip].exists /\ clock - visitors[ip].lastSeen > IdleMs
                      THEN NoVisitor ELSE visitors[ip]]
    /\ nextSweep' = clock + SweepMs
    /\ left' = [left EXCEPT !.sweeps = left.sweeps - 1]
    /\ UNCHANGED <<clock, limiters, held, seen, environ, rl, svcVars>>

\* between two requests, d milliseconds pass; cleanupVisitors never oversleeps
Wait(steps) ==
    /\ \A h \in Handlers : held[h] = NoHeld
    /\ left.ticks > 0
    /\ \E d \in steps : clock + d <= nextSweep /\ clock' = clock + d
    /\ left' = [left EXCEPT !.ticks = left.ticks - 1]
    /\ UNCHANGED <<visitors, limiters, held, nextSweep, seen, environ, rl, svcVars>>

\* no request comes until cleanupVisitors wakes up
Idle ==
    /\ \A h \in Handlers : held[h] = NoHeld
    /\ clock < nextSweep
    /\ clock' = nextSweep
    /\ UNCHANGED <<visitors, limiters, held, nextSweep, seen, left, environ, rl, svcVars>>

(***************************************************************************)
(* urlService.GetClickAnalytics over urlRepository.GetClickAnalytics.      *)
(* clicked_at is a timestamp without time zone holding the UTC wall clock  *)
(* of the click, in seconds.  A time zone is its offset from UTC in        *)
(* minutes (0: 'UTC'); the session that runs the query has its own.        *)
(***************************************************************************)
Minutes(n) == n * 60
Hours(n) == n * 3600
Days(n) == n * 86400

\* timestamp AT TIME ZONE zone: the instant at which the zone's wall clock shows it
ToInstant(wall, zone) == wall - Minutes(zone)

\* timestamptz AT TIME ZONE zone: what the zone's wall clock shows at the instant
ToWall(instant, zone) == instant + Minutes(zone)

\* DATE_TRUNC(unit, timestamptz): truncation in the time zone of the session
DateTrunc(unit, instant, session) ==
    LET wall == ToWall(instant, session)
        len == IF unit = "hour" THEN Hours(1) ELSE Days(1)
    IN ToInstant(wall - (wall % len), session)

\* EXTRACT(MINUTE FROM timestamptz), EXTRACT(HOUR FROM timestamptz): fields of the
\* wall clock of the session
ExtractMinute(instant, session) == (ToWall(instant, session) % Hours(1)) \div Minutes(1)
ExtractHour(instant, session) == (ToWall(instant, session) % Days(1)) \div Hours(1)

\* a switch that groups by 10 minutes below 6 hours only
groupingBelow(hours) ==
    IF hours < 6 THEN [unit |-> "hour", field |-> "minute", every |-> 10, step |-> Minutes(10)]
    ELSE IF hours <= 12
    THEN [unit |-> "hour", field |-> "minute", every |-> 30, step |-> Minutes(30)]
    ELSE IF hours <= 24 THEN [unit |-> "hour", field |-> "none", every |-> 1, step |-> 0]
    ELSE IF hours <= 72 THEN [unit |-> "day", field |-> "hour", every |-> 6, step |-> Hours(6)]
    ELSE [unit |-> "day", field |-> "none", every |-> 1, step |-> 0]

\* the switch on hours: the unit of DATE_TRUNC and the INTERVAL added per FLOOR(field / every)
grouping(hours) ==
    IF hours <= 6 THEN [unit |-> "hour", field |-> "minute", every |-> 10, step |-> Minutes(10)]
    ELSE IF hours <= 12
    THEN [unit |-> "hour", field |-> "minute", every |-> 30, step |-> Minutes(30)]
    ELSE IF hours <= 24 THEN [unit |-> "hour", field |-> "none", every |-> 1, step |-> 0]
    ELSE IF hours <= 72 THEN [unit |-> "day", field |-> "hour", every |-> 6, step |-> Hours(6)]
    ELSE [unit |-> "day", field |-> "none", every |-> 1, step |-> 0]

\* the time_bucket expression of the query: (DATE_TRUNC(...) + INTERVAL * FLOOR(...))
\* AT TIME ZONE 'UTC', over clicked_at AT TIME ZONE 'UTC'
timeBucket(hours, clicked_at, session) ==
    LET g == grouping(hours)
        ts == ToInstant(clicked_at, 0)
        field == IF g.field = "minute" THEN ExtractMinute(ts, session)
                 ELSE IF g.field = "hour" THEN ExtractHour(ts, session)
                 ELSE 0
    IN ToWall(DateTrunc(g.unit, ts, session) + g.step * (field \div g.every), 0)

\* a WHERE clause that leaves out the click made exactly `hours` ago
inWindowStrict(clicked_at, t, hours) == clicked_at > t - Hours(hours)

\* clicked_at >= (NOW() AT TIME ZONE 'UTC') - INTERVAL '<hours> hours'
inWindow(clicked_at, t, hours) == clicked_at >= t - Hours(hours)

RECURSIVE Ascending(_)
\* ORDER BY time_bucket ASC
Ascending(S) == IF S = {} THEN <<>> ELSE <<Min(S)>> \o Ascending(S \ {Min(S)})

\* urlRepository.GetClickAnalytics: the rows of the query, scanned into maps
ClickRows(clicks, urlID, hours, t, session) ==
    LET included == {i \in 1..Len(clicks) :
                        clicks[i].url_id = urlID /\ inWindow(clicks[i].clicked_at, t, hours)}
        bucketOf(i) == timeBucket(hours, clicks[i].clicked_at, session)
        order == Ascending({bucketOf(i) : i \in included})
    IN [k \in 1..Len(order) |->
           [time |-> order[k],
            count |-> Cardinality({i \in included : bucketOf(i) = order[k]})]]

\* urlService.GetClickAnalytics: s.repo.GetStats, then s.repo.GetClickAnalytics
GetClickAnalytics(p, codes, users, lookbacks, sessions) ==
    /\ pc[p] = "idle"
    /\ ops > 0
    /\ \E c \in codes, usr \in users, h \in lookbacks, z \in sessions :
          LET found == OwnedRows(urls, c, usr)
              r == [op |-> "analytics", short_code |-> c, url |-> "", user |-> usr,
                    expires_at |-> NilTime, hours |-> h, session |-> z]
          IN /\ req' = [req EXCEPT ![p] = r]
             /\ pre' = [pre EXCEPT ![p] = [Snapshot(c, <<>>) EXCEPT !.owned = Owns(c, usr)]]
             /\ res' = [res EXCEPT ![p] =
                           IF found = {}
                           THEN [kind |-> "NotFoundError", short_code |-> NoCode, url |-> "",
                                 rows |-> <<>>]
                           ELSE [kind |-> "ok", short_code |-> c, url |-> "",
                                 rows |-> ClickRows(url_clicks, (CHOOSE x \in found : TRUE).id,
                                                    h, now, z)]]
    /\ ops' = ops - 1
    /\ UNCHANGED <<urls, url_clicks, nextId, cache, now, tasks, pc, loc, hist, cacheClient,
                   rlVars>>

(***************************************************************************)
(* Specifications of the URL service.                                      *)
(***************************************************************************)
vars == <<svcVars, rlVars>>

\* one client, one request at a time (the goroutines of cache hits run beside it);
\* the 8-character code is asked for by name and is what generateShortCode returns
NextSeq ==
    \/ \E p \in {1} :
          \/ StartCreate(p, {NoCode, GenA, CodeLong}, Targets, {"u1"}, {<<>>, <<1>>}, {GenA})
          \/ CreateShortURL(p, {GenA})
          \/ StartResolve(p, {GenA})
          \/ GetOriginalURL(p)
          \/ StartDelete(p, {GenA}, Users)
          \/ DeleteURL(p)
          \/ UpdateExpiresAt(p, {GenA}, Users, {<<>>, <<1>>})
    \/ IncrementClickCount
    \/ Tick({1, TakenTTL})

InitSeq == SvcInit(MaxOps) /\ RLInit(0, 0, 0)

SpecSeq == InitSeq /\ [][NextSeq]_vars

\* two workers, every operation, one code
Next ==
    \/ \E p \in Procs :
          \/ StartCreate(p, {GenA}, Targets, {"u1"}, {<<>>, <<1>>}, {GenA})
          \/ CreateShortURL(p, {GenA})
          \/ StartResolve(p, {GenA})
          \/ GetOriginalURL(p)
          \/ StartDelete(p, {GenA}, {"u1"})
          \/ DeleteURL(p)
    \/ IncrementClickCount
    \/ Tick({1})

Init == SvcInit(MaxRaceOps) /\ RLInit(0, 0, 0)

Spec == Init /\ [][Next]_vars

\* two workers that only allocate: no row is ever deleted
NextRace ==
    \/ \E p \in Procs :
          \/ StartCreate(p, {GenA, CodeLong}, Targets, {"u1"}, {<<>>}, {GenA})
          \/ CreateShortURL(p, {GenA})

SpecRace == Init /\ [][NextRace]_vars

\* two workers that only allocate, over a store whose query may fail
NextSentinel ==
    \E p \in Procs :
        \/ StartCreate(p, {NoCode, GenA, CodeLong}, {"https://t1"}, {"u1"}, {<<>>, <<1>>}, {GenA})
        \/ CreateShortURL(p, {GenA})
        \/ AllocFindError(p)

SpecSentinel == Init /\ [][NextSentinel]_vars

(***************************************************************************)
(* Specifications of the rate limiter.                                     *)
(***************************************************************************)
\* requests of one identity, a quarter or half a second apart or at once
NextLimit ==
    \/ \E h \in Handlers : getVisitor(h, {"ip1"}) \/ LimitMiddleware(h)
    \/ Wait({250, 500})

InitLimit == SvcInit(0) /\ RLInit(MaxRequests, MaxTicks, 0)

SpecLimit == InitLimit /\ [][NextLimit]_vars

\* requests of two identities, the first one from ip1, and the sweeper
NextSweep ==
    \/ \E h \in {1} :
          \/ getVisitor(h, IF seen["ip1"].buckets = 0 THEN {"ip1"} ELSE IPs)
          \/ LimitMiddleware(h)
    \/ cleanupVisitors
    \/ Wait({250})
    \/ Idle

InitSweep == SvcInit(0) /\ RLInit(MaxSweepRequests, MaxSweepTicks, MaxSweeps)

SpecSweep == InitSweep /\ [][NextSweep]_vars

\* two handlers serving one identity while the sweeper runs
NextLookup ==
    \/ \E h \in Handlers : getVisitor(h, {"ip1"}) \/ LimitMiddleware(h)
    \/ cleanupVisitors
    \/ Wait({250})
    \/ Idle

InitLookup == SvcInit(0) /\ RLInit(MaxLookupRequests, MaxSweepTicks, MaxSweeps)

SpecLookup == InitLookup /\ [][NextLookup]_vars

\* one identity that asks for more than its bucket holds, then stays away while the
\* sweeper runs, and comes back
NextIdle ==
    \/ \E h \in {1} : getVisitor(h, {"ip1"}) \/ LimitMiddleware(h)
    \/ cleanupVisitors
    \/ Wait({250})
    \/ Idle

InitIdle == SvcInit(0) /\ RLInit(MaxIdleRequests, MaxSweepTicks, MaxSweeps)

SpecIdle == InitIdle /\ [][NextIdle]_vars

\* the limiters whose admits are counted: the one the bounds describe, and one whose
\* rate refills less than its burst in the 10 minutes a bucket must be idle to be swept
RateConfigs == {<<Limit(rps), burst>>, <<SlowRate, SlowBurst>>}

\* one identity whose requests come at once, a quarter of a second apart, or after the
\* sweeper has run
NextBound ==
    \/ \E h \in {1} : getVisitor(h, {"ip1"}) \/ LimitMiddleware(h)
    \/ cleanupVisitors
    \/ Wait({250})
    \/ Idle

InitBound ==
    /\ SvcInit(0)
    /\ environ = NoEnviron
    /\ \E c \in RateConfigs :
          NewRateLimiter("general", c[1], c[2], MaxBoundRequests, MaxSweepTicks, MaxSweeps)

SpecBound == InitBound /\ [][NextBound]_vars

\* what a rate-limit variable may hold: nothing, a number, something that is no number
EnvValues == {<<>>, <<"3">>, <<"x">>}

\* the limiter of one route class, built from what config.Load finds in the
\* environment, and the first requests made of it
NextConfig == \E h \in {1} : getVisitor(h, IPs) \/ LimitMiddleware(h)

InitConfig ==
    /\ SvcInit(0)
    /\ environ \in [RateKeys -> EnvValues]
    /\ \E route \in RouteClasses :
          LET l == Limits(Load(environ), route)
          IN NewRateLimiter(route, l.rate, l.burst, MaxConfigRequests, 0, 0)

SpecConfig == InitConfig /\ [][NextConfig]_vars

\* one worker over a cache client that works, fails now and then, fails always, or is nil;
\* the clock advances between requests, so that a request is served at one instant
NextCache ==
    \/ \E p \in {1} :
          \/ StartCreate(p, {GenA}, {"https://t1"}, {"u1"}, {<<>>, <<1>>}, {GenA})
          \/ CreateShortURL(p, {GenA})
          \/ StartResolve(p, {GenA})
          \/ GetOriginalURL(p)
          \/ StartDelete(p, {GenA}, Users)
          \/ DeleteURL(p)
    \/ IncrementClickCount
    \/ Outage
    \/ pc[1] = "idle" /\ Tick({1})

InitCache == NewURLService(MaxCacheOps, {"ok", "failing", "broken", "nil"}) /\ RLInit(0, 0, 0)

SpecCache == InitCache /\ [][NextCache]_vars

\* one worker that mostly asks for a generated code, of which there are two; the clock
\* advances between requests; the worker is scheduled for as long as it has a call to make
NextGenerate ==
    \/ \E p \in {1} :
          \/ StartCreate(p, {NoCode, GenA}, {"https://t1"}, {"u1"}, {<<>>, <<1>>}, GenCodes)
          \/ CreateShortURL(p, GenCodes)
    \/ pc[1] = "idle" /\ Tick({1, TakenTTL})

InitGenerate == SvcInit(MaxOps) /\ RLInit(0, 0, 0)

SpecGenerate ==
    InitGenerate /\ [][NextGenerate]_vars /\ WF_vars(CreateShortURL(1, GenCodes))

\* what a caller may put in short_code
SuppliedCodes ==
    { NoCode, CodeA, CodeSpaced, CodeMax, CodeMixed, CodeReserved, CodeShort, CodeOver,
      CodeDotted, CodeBlank }

\* one worker that allocates codes of every kind
NextValidate ==
    \/ \E p \in {1} :
          \/ StartCreate(p, SuppliedCodes, {"https://t1"}, {"u1"}, {<<>>, <<1>>}, {GenA})
          \/ CreateShortURL(p, {GenA})
    \/ Tick({1, TakenTTL})

InitValidate == SvcInit(MaxValidateOps) /\ RLInit(0, 0, 0)

SpecValidate == InitValidate /\ [][NextValidate]_vars

\* the expires_at a caller may supply: none, 3 seconds ago, 2 seconds ago, in 1 second
SuppliedExpiries == {<<>>, <<-3>>, <<-2>>, <<1>>}

\* one worker that allocates and updates with expiry times of every kind
NextExpiry ==
    \/ \E p \in {1} :
          \/ StartCreate(p, {NoCode, GenA}, {"https://t1"}, {"u1"}, SuppliedExpiries, {GenA})
          \/ CreateShortURL(p, {GenA})
          \/ UpdateExpiresAt(p, {GenA}, Users, SuppliedExpiries)
    \/ Tick({1, TakenTTL})

InitExpiry == SvcInit(MaxExpiryOps) /\ RLInit(0, 0, 0)

SpecExpiry == InitExpiry /\ [][NextExpiry]_vars

\* one worker that allocates and resolves one code while the goroutines of cache hits
\* run beside it, no link being deleted; the store answers every statement; the clock
\* advances by a second or by the life of a cache entry; a request being served and a
\* goroutine started are scheduled for as long as they have a statement to run
NextRecord ==
    \/ \E p \in {1} :
          \/ StartCreate(p, {GenA}, {"https://t1"}, {"u1"}, {<<>>, <<1>>}, {GenA})
          \/ CreateShortURL(p, {GenA})
          \/ StartResolve(p, {GenA})
          \/ GetOriginalURL(p)
    \/ IncrementClickCount
    \/ Tick({1, URLCacheTTL})

InitRecord == SvcInit(MaxRecordOps) /\ RLInit(0, 0, 0)

SpecRecord ==
    /\ InitRecord /\ [][NextRecord]_vars
    /\ WF_vars(IncrementClickCount)
    /\ WF_vars(GetOriginalURL(1))

\* one worker serving two callers: u1 allocates, both ask about that link and about a
\* code that has no row; the goroutines of cache hits run beside it; the clock advances
\* by a second or by the life of a sentinel
NextOwner ==
    \/ \E p \in {1} :
          \/ StartCreate(p, {GenA}, {"https://t1"}, {"u1"}, {<<>>, <<1>>}, {GenA})
          \/ CreateShortURL(p, {GenA})
          \/ StartResolve(p, {GenA})
          \/ GetOriginalURL(p)
          \/ StartDelete(p, {GenA, CodeA}, Users)
          \/ DeleteURL(p)
          \/ UpdateExpiresAt(p, {GenA, CodeA}, Users, {<<>>, <<-3>>, <<1>>})
          \/ GetURLStats(p, {GenA, CodeA}, Users)
          \/ GetClickAnalytics(p, {GenA, CodeA}, Users, {24}, {0})
    \/ IncrementClickCount
    \/ Tick({1, TakenTTL})

InitOwner == SvcInit(MaxOwnerOps) /\ RLInit(0, 0, 0)

SpecOwner == InitOwner /\ [][NextOwner]_vars

\* one worker that allocates and resolves one code over a store that may fail any
\* statement of IncrementClickCount; the goroutines of cache hits run beside it
NextFault ==
    \/ \E p \in {1} :
          \/ StartCreate(p, {GenA}, {"https://t1"}, {"u1"}, {<<>>, <<1>>}, {GenA})
          \/ CreateShortURL(p, {GenA})
          \/ StartResolve(p, {GenA})
          \/ GetOriginalURL(p)
          \/ ResolveRecordError(p)
    \/ IncrementClickCount
    \/ TaskError
    \/ Tick({1, URLCacheTTL})

InitFault == SvcInit(MaxFaultOps) /\ RLInit(0, 0, 0)

SpecFault == InitFault /\ [][NextFault]_vars

\* one worker serving the owner of one code, who allocates it, resolves it, deletes it
\* and allocates it again while the goroutines of cache hits run beside the worker
NextReuse ==
    \/ \E p \in {1} :
          \/ StartCreate(p, {GenA}, Targets, {"u1"}, {<<>>, <<1>>}, {GenA})
          \/ CreateShortURL(p, {GenA})
          \/ StartResolve(p, {GenA})
          \/ GetOriginalURL(p)
          \/ StartDelete(p, {GenA}, {"u1"})
          \/ DeleteURL(p)
    \/ IncrementClickCount
    \/ Tick({1, TakenTTL})

InitReuse == SvcInit(MaxReuseOps) /\ RLInit(0, 0, 0)

SpecReuse == InitReuse /\ [][NextReuse]_vars

\* 2024-01-04T00:00:00Z, the clock counting from 2024-01-01T00:00:00Z
Jan4 == Days(3)

\* the instants at which a click may have been recorded
ClickTimes ==
    { Jan4 + Hours(10) + Minutes(5), Jan4 + Hours(10) + Minutes(7),
      Jan4 + Hours(10) + Minutes(32), Jan4 + Hours(10), Jan4 + Hours(9) + Minutes(59),
      Jan4 + Hours(4) + Minutes(32), Jan4 + Hours(4) + Minutes(31),
      Jan4 - Minutes(1), Hours(10) + Minutes(32) }

\* the instants at which the analytics are asked for
AskTimes == { Jan4 + Hours(10) + Minutes(32), Jan4 + Hours(12) }

\* the lookbacks asked for: the ends of the ranges of the switch
Lookbacks == {1, 6, 7, 12, 13, 24, 25, 72, 73}

\* the TimeZone of the session: UTC, Asia/Kolkata, America/New_York (EST)
Sessions == {0, 330, 0 - 300}

\* url_clicks as IncrementClickCount may have left it: each row stamped with the clock
\* of its INSERT, so in the order of clicked_at
ClickLogs ==
    UNION { { l \in [1..n -> [url_id : {1, 2}, clicked_at : ClickTimes]] :
                \A i \in 1..(n - 1) : l[i].clicked_at <= l[i + 1].clicked_at }
            : n \in 0..MaxEvents }

\* two links of one owner with their clicks, and one request for analytics
NextAnalytics ==
    \E p \in {1} : GetClickAnalytics(p, {GenA, CodeA}, Users, Lookbacks, Sessions)

InitAnalytics ==
    /\ cacheClient = "ok"
    /\ urls = { NewURL(1, GenA, "https://t1", "u1", NilTime),
                NewURL(2, CodeA, "https://t2", "u1", NilTime) }
    /\ url_clicks \in ClickLogs
    /\ nextId = 3
    /\ cache = [k \in {"url", "shortcode:exists"} \X Codes |-> NoEntry]
    /\ now \in AskTimes
    /\ tasks = EmptyBag
    /\ pc = [p \in Procs |-> "idle"]
    /\ req = [p \in Procs |-> NoReq]
    /\ loc = [p \in Procs |-> NoLoc]
    /\ res = [p \in Procs |-> NoRes]
    /\ ops = 1
    /\ pre = [p \in Procs |-> NoPre]
    /\ hist = [c \in Codes |-> [issued |-> "", deleted |-> "no"]]
    /\ RLInit(0, 0, 0)

SpecAnalytics == InitAnalytics /\ [][NextAnalytics]_vars

(***************************************************************************)
(* Properties of the URL service.                                          *)
(***************************************************************************)
\* worker p has answered a request of kind op and has not taken another one
Answered(p, op) == pc[p] = "idle" /\ req[p].op = op /\ res[p].kind # "none"

\* the rules of a custom code: 3 to 20 characters of [a-zA-Z0-9_-], not reserved
SatisfiesCodeRules(code) ==
    /\ Len(code) \in MinCodeLen..MaxCodeLen
    /\ \A i \in DOMAIN code : code[i] \in CodeCharset
    /\ ToLower(code) \notin reservedCodes

\* an allocate of a custom code that obeys the rules, with no expiry or one not in the past
CustomAllocate(p) ==
    /\ Answered(p, "create")
    /\ req[p].short_code # NoCode
    /\ SatisfiesCodeRules(TrimSpace(req[p].short_code))
    /\ (pre[p].off = <<>> \/ pre[p].off[1] >= 0)

NoEntryFor(code) ==
    /\ ~ CacheHas(cache, urlCacheKey(code), now)
    /\ ~ CacheHas(cache, cacheKey(code), now)

\* C1: under every interleaving of allocate, resolve and delete, the store never holds
\* two rows with the same code.
C1_OneRowPerCode == \A r1, r2 \in urls : r1.short_code = r2.short_code => r1 = r2

\* a row stands and another worker's INSERT of the same code was just refused
C1_Witness ==
    \E p \in Procs : pc[p] = "a_dupTaken" /\ \E r \in urls : r.short_code = loc[p].code

\* C2: of the allocate calls that run concurrently for one valid custom code, at most one
\* returns a ShortLink, every other one returns ConflictError, and the step that returns
\* ConflictError leaves the code's sentinel Taken.
C2_RaceOneWinner ==
    /\ [](\A p \in Procs :
             CustomAllocate(p) /\ pre[p].raced =>
                /\ res[p].kind \in {"ok", "ConflictError"}
                /\ \A q \in Procs \ {p} :
                      CustomAllocate(q) /\ req[q].short_code = req[p].short_code
                         => ~ (res[p].kind = "ok" /\ res[q].kind = "ok"))
    /\ [][\A p \in Procs :
             pc[p] # "idle" /\ pc'[p] = "idle" /\ res'[p].kind = "ConflictError"
                => Sentinel(cache', loc[p].code, now') = "taken"]_vars

\* C3: for a custom code that obeys the rules (any length from 3 to 20), the allocate
\* that finds no row of the code succeeds and the one that finds a row fails with
\* ConflictError.
C3_FirstThenConflict ==
    \A p \in Procs :
        CustomAllocate(p) =>
            res[p].kind = (IF pre[p].hadRow THEN "ConflictError" ELSE "ok")

C5_DeadNeverResolves ==
    /\ [](\A p \in Procs :
             Answered(p, "resolve") /\ pre[p].gone => res[p].kind = "NotFoundError")
    /\ [][/\ BagCardinality(tasks') > BagCardinality(tasks)
             => \E p \in Procs : pc[p] = "idle" /\ Answered(p, "resolve")' /\ ~ pre'[p].gone
          /\ \A p \in Procs :
                pc[p] \in {"r_upd", "r_ins"} /\ pc'[p] # pc[p] => ~ pre[p].gone]_vars

\* C6: when a delete has succeeded, neither url:<code> nor shortcode:exists:<code> is in
\* the cache.
C6_DeleteEvictsBoth ==
    \A p \in Procs :
        Answered(p, "delete") /\ res[p].kind = "ok" => NoEntryFor(req[p].short_code)

\* a delete that found both entries in the cache has succeeded
C6_Witness ==
    \E p \in Procs :
        /\ Answered(p, "delete") /\ res[p].kind = "ok"
        /\ pre[p].urlCached /\ pre[p].sentinel = "taken"

\* C7: when an update of expires_at has succeeded, neither url:<code> nor
\* shortcode:exists:<code> is in the cache.
C7_UpdateEvictsBoth ==
    \A p \in Procs :
        Answered(p, "update") /\ res[p].kind = "ok" => NoEntryFor(req[p].short_code)

\* C8: once a delete has removed a code whose two cache entries were populated, a resolve
\* of the code returns NotFoundError and an allocate of it as a custom code succeeds.
C8_DeleteThenReuse ==
    \A p \in Procs :
        pre[p].afterDelete = "populated" =>
            /\ Answered(p, "resolve") => res[p].kind = "NotFoundError"
            /\ CustomAllocate(p) => res[p].kind = "ok"

\* the code is issued again after its deletion
C8_Witness ==
    \E p \in Procs :
        CustomAllocate(p) /\ pre[p].afterDelete = "populated" /\ res[p].kind = "ok"

(***************************************************************************)
(* Properties of the rate limiter.                                         *)
(***************************************************************************)
\* the tokens a bucket offers at instant t after admits at the instants a[1..k]: its
\* burst, or less if for some j the admits from a[j] on have used more than the refill
\* since a[j]
Offered(a, t) ==
    Min({Tokens(burst)} \cup
        {Tokens(burst) + rps * (t - a[j]) - Tokens(Len(a) - j + 1) : j \in DOMAIN a})

\* the admits of an identity's bucket before its last request
AdmitsBefore(s) ==
    IF s.last = "admit" THEN SubSeq(s.admits, 1, Len(s.admits) - 1) ELSE s.admits

\* C9: a request is admitted exactly when the bucket of its identity, created full and
\* refilled by one token per 1/rps seconds up to burst, offers a token; of n requests
\* made at the instant the bucket is created, min(n, burst) are admitted.
C9_TokenBucket ==
    \A ip \in IPs :
        seen[ip].n > 0 =>
            /\ seen[ip].last = "admit" <=>
                  Offered(AdmitsBefore(seen[ip]), seen[ip].at) >= Tokens(1)
            /\ seen[ip].at = seen[ip].created =>
                  Len(seen[ip].admits) = Min({seen[ip].n, burst})

\* burst + 1 requests at once: burst admits and a deny; 1/rps seconds later one admit,
\* then a deny
C9_Witness ==
    \E ip \in IPs :
        /\ seen[ip].n = burst + 3
        /\ Len(seen[ip].admits) = burst + 1
        /\ seen[ip].admits[burst] = seen[ip].created
        /\ rps * (seen[ip].admits[burst + 1] - seen[ip].created) = Tokens(1)
        /\ seen[ip].last = "deny"
        /\ seen[ip].at = seen[ip].admits[burst + 1]

\* C10: no bucket stays in the map for more than the idle threshold plus one sweep
\* interval after its last request, and of n requests made at the instant a bucket is
\* created again after an eviction, min(n, burst) are admitted.
C10_IdleEviction ==
    /\ \A ip \in IPs :
          visitors[ip].exists => clock - visitors[ip].lastSeen <= IdleMs + SweepMs
    /\ \A ip \in IPs :
          seen[ip].buckets > 1 /\ seen[ip].n > 0 /\ seen[ip].at = seen[ip].created =>
              Len(seen[ip].admits) = Min({seen[ip].n, burst})

\* an evicted identity is back and its first burst requests, made at once, are admitted
C10_Witness ==
    \E ip \in IPs :
        /\ seen[ip].buckets = 2
        /\ seen[ip].n = burst
        /\ Len(seen[ip].admits) = burst
        /\ seen[ip].at = seen[ip].created

\* C11: getVisitor is atomic with respect to other getVisitor calls and to the sweep:
\* every handler that holds a limiter for an identity holds the one the map has for it,
\* as many limiters exist as buckets were created, and the requests made at the instant
\* a bucket is created get at most burst admits together.
C11_OneBucket ==
    /\ \A h \in Handlers :
          held[h] # NoHeld =>
              /\ visitors[held[h].ip].exists
              /\ visitors[held[h].ip].limiter = held[h].limiter
    /\ \A ip \in IPs :
          /\ seen[ip].at = seen[ip].created => Len(seen[ip].admits) <= burst
          /\ visitors[ip].exists => seen[ip].buckets >= 1
    /\ \A h1, h2 \in Handlers :
          held[h1] # NoHeld /\ held[h2] # NoHeld /\ held[h1].ip = held[h2].ip
              => held[h1].limiter = held[h2].limiter

\* two requests of one identity arrived while it had no bucket: one limiter exists and
\* both handlers hold it
C11_Witness ==
    /\ Len(limiters) = 1
    /\ held[1] # NoHeld /\ held[2] = held[1]
    /\ seen[held[1].ip].n = 0

\* handler h answers a request for which the bucket it holds has less than one token
Denies(h) ==
    /\ held[h] # NoHeld /\ held'[h] = NoHeld
    /\ advance(limiters[held[h].limiter], clock) < Tokens(1)

\* C32: a request that finds less than one token in its bucket is rejected in the step
\* that asks the bucket, without waiting; what is behind the limiter is not run for it;
\* and the bucket is left as it was, so that the denied request costs no token
C32_DenyTakesNothing ==
    [][\A h \in Handlers :
          Denies(h) =>
             LET ip == held[h].ip
                 i == held[h].limiter
             IN /\ seen'[ip].last = "deny"
                /\ seen'[ip].n = seen[ip].n + 1
                /\ seen'[ip].admits = seen[ip].admits
                /\ limiters' = limiters
                /\ advance(limiters'[i], clock') = advance(limiters[i], clock)
                /\ clock' = clock]_vars

\* a bucket was emptied by burst requests made at once and the next request, some time
\* later but before a token is back, was denied: the bucket has what the refill gave it
C32_Witness ==
    \E ip \in IPs :
        /\ seen[ip].n = burst + 1 /\ Len(seen[ip].admits) = burst
        /\ seen[ip].last = "deny" /\ seen[ip].at > seen[ip].created
        /\ \A h \in Handlers : held[h] = NoHeld
        /\ limiters[visitors[ip].limiter].tokens = 0
        /\ advance(limiters[visitors[ip].limiter], clock) = rps * (clock - seen[ip].created)
        /\ advance(limiters[visitors[ip].limiter], clock) < Tokens(1)

\* the instant of the last request of an identity that has a bucket: now if a handler
\* is serving one, else that of the last verdict, admit or deny
LastRequest(ip) ==
    IF \E h \in Handlers : held[h] # NoHeld /\ held[h].ip = ip THEN clock
    ELSE IF seen[ip].n > 0 THEN seen[ip].at
    ELSE seen[ip].created

\* C33: every request of an identity sets the lastSeen of its bucket to the instant of
\* the request, before the verdict; a bucket leaves the map only in a sweep and only
\* when its lastSeen, and so the last request of its identity, admitted or denied, is
\* more than 10 minutes old; a sweep leaves every other bucket, and the tokens of
\* every limiter, as they were
C33_SweepSparesRecent ==
    [][/\ \A h \in Handlers :
             held[h] = NoHeld /\ held'[h] # NoHeld =>
                /\ visitors'[held'[h].ip].exists
                /\ visitors'[held'[h].ip].lastSeen = clock
                /\ visitors'[held'[h].ip].limiter = held'[h].limiter
       /\ \A ip \in IPs :
             visitors[ip].exists /\ ~ visitors'[ip].exists =>
                /\ nextSweep' # nextSweep
                /\ clock - visitors[ip].lastSeen > 600000
                /\ clock - LastRequest(ip) > 600000
       /\ nextSweep' # nextSweep =>
             /\ limiters' = limiters
             /\ \A ip \in IPs : visitors[ip].exists /\ clock - LastRequest(ip) <= 600000
                                     => visitors'[ip] = visitors[ip]]_vars

\* an identity made burst + 1 requests at once, the last of them denied, and none
\* since: 10 minutes later a sweep has just run, and its bucket is in the map, empty
C33_Witness ==
    /\ nextSweep = clock + SweepMs
    /\ visitors["ip1"].exists /\ clock - visitors["ip1"].lastSeen = 600000
    /\ seen["ip1"].n = burst + 1 /\ seen["ip1"].last = "deny"
    /\ seen["ip1"].at = visitors["ip1"].lastSeen
    /\ limiters[visitors["ip1"].limiter].tokens = 0

\* C37: in every reachable state every bucket holds at least no token and at most
\* burst tokens, in what it has stored and in what it offers now that it is refilled:
\* the refill stops at burst and an admit takes a token only where there is one
C37_TokensWithinBurst ==
    \A i \in DOMAIN limiters :
        /\ 0 <= limiters[i].tokens /\ limiters[i].tokens <= Tokens(limiters[i].burst)
        /\ 0 <= advance(limiters[i], clock) /\ advance(limiters[i], clock) <= Tokens(limiters[i].burst)
        /\ limiters[i].burst = rl.burst

\* a bucket that had burst - 1 tokens was left alone for longer than one token takes:
\* the next request found it full, not fuller, and left burst - 1 tokens again
C37_Witness ==
    \E ip \in IPs :
        /\ seen[ip].n = 2 /\ Len(seen[ip].admits) = 2
        /\ rps * (seen[ip].admits[2] - seen[ip].admits[1]) > Tokens(1)
        /\ \A h \in Handlers : held[h] = NoHeld
        /\ limiters[visitors[ip].limiter].tokens = Tokens(burst - 1)
        /\ limiters[visitors[ip].limiter].last = seen[ip].admits[2]

\* the instants of the admits of an identity, over all the buckets it has had
AllAdmits(ip) == seen[ip].past \o seen[ip].admits

\* of the admits at the instants a, those of every interval number at most
\* b + r * T, T being the length of the interval (r in thousandths of a token per
\* second, the instants in milliseconds)
WithinRate(a, r, b) ==
    \A i, j \in DOMAIN a :
        i <= j => Tokens(j - i + 1) <= Tokens(b) + Refill(r, a[j] - a[i])

\* the rate refills a whole burst in the 10 minutes after which a bucket may be swept
RefillsWhileIdle == rl.rate * 600 >= Tokens(rl.burst)

\* C38: the requests of an identity admitted in an interval of length T number at
\* most b + r * T as long as they are served by one bucket; they do so over intervals
\* in which the bucket is evicted and created again when the rate refills a burst
\* within the idle threshold, r * 600 s >= b
C38_AdmitsWithinRate ==
    \A ip \in IPs :
        /\ WithinRate(seen[ip].admits, rl.rate, rl.burst)
        /\ RefillsWhileIdle => WithinRate(AllAdmits(ip), rl.rate, rl.burst)

\* an identity used up its bucket, stayed away until the sweep removed the bucket, and
\* came back: its request is admitted by a new bucket, within the rate
C38_Witness ==
    \E ip \in IPs :
        /\ RefillsWhileIdle
        /\ seen[ip].buckets = 2
        /\ Len(seen[ip].past) = rl.burst /\ seen[ip].past[rl.burst] = seen[ip].past[1]
        /\ Len(seen[ip].admits) = 1

\* C38 as stated: whatever the rate and the burst, the admits of an identity in an
\* interval of length T number at most b + r * T, also over intervals in which its
\* bucket is evicted and created again
C38_AdmitsWithinRateAlways ==
    \A ip \in IPs : WithinRate(AllAdmits(ip), rl.rate, rl.burst)


\* what the store alone answers to the request worker p served last: the kinds of
\* result a service without cache may give (both, at the very instant of expiry)
StoreAnswers(p) ==
    CASE req[p].op = "resolve" ->
            IF pre[p].live THEN {"ok"}
            ELSE IF pre[p].gone THEN {"NotFoundError"}
            ELSE {"ok", "NotFoundError"}
      [] req[p].op = "delete" ->
            IF pre[p].owned THEN {"ok"} ELSE {"NotFoundError"}
      [] req[p].op = "create" ->
            IF pre[p].off # <<>> /\ pre[p].off[1] < 0 - SkewSeconds THEN {"ValidationError"}
            ELSE IF validateCustomShortCode(TrimSpace(req[p].short_code)) # ""
            THEN {"ValidationError"}
            ELSE IF pre[p].hadRow THEN {"ConflictError"}
            ELSE IF Len(TrimSpace(req[p].short_code)) > ShortCodeColumnLen THEN {"StoreError"}
            ELSE {"ok"}
      [] OTHER -> {res[p].kind}

\* C12: whichever cache calls fail, every allocate, resolve and delete returns what
\* the same sequence returns when run against the store with no cache
C12_SameAsStore ==
    \A p \in Procs :
        pc[p] = "idle" /\ req[p].op # "none" => res[p].kind \in StoreAnswers(p)

\* C13: a service built with a nil cache and a service whose cache fails on every
\* call both take the store path: nothing is read from or written to the cache, no
\* goroutine of the cache-hit path is started, and every allocate, resolve and delete
\* returns what the store alone determines, the same in both
C13_NilAsFailing ==
    cacheClient \in {"nil", "broken"} =>
        /\ \A k \in DOMAIN cache : cache[k] = NoEntry
        /\ tasks = EmptyBag
        /\ \A p \in Procs :
              /\ pc[p] \notin {"a_get", "r_evict"}
              /\ pc[p] = "idle" /\ req[p].op # "none" =>
                    /\ res[p].kind \in StoreAnswers(p)
                    /\ req[p].op = "resolve" => (res[p].kind = "ok" <=> pre[p].live)
                    /\ Answered(p, "resolve") /\ res[p].kind = "ok" =>
                          res[p].url = hist[req[p].short_code].issued

C13_Witness ==
    /\ cacheClient = "nil"
    /\ Answered(1, "resolve") /\ res[1].kind = "ok"
    /\ Len(url_clicks) = 1

(***************************************************************************)
(* Properties of the analytics.                                            *)
(***************************************************************************)
\* worker p has the rows of the analytics it asked for
AnalyticsAnswered(p) == pc[p] = "idle" /\ req[p].op = "analytics" /\ res[p].kind = "ok"

\* the click events of the link worker p asked about that lie in the lookback window
Included(p) ==
    {i \in 1..Len(url_clicks) :
        /\ \E r \in urls : r.short_code = req[p].short_code /\ r.id = url_clicks[i].url_id
        /\ url_clicks[i].clicked_at >= now - Hours(req[p].hours)}

\* the width the policy gives to a lookback
PolicyWidth(h) ==
    IF h <= 6 THEN Minutes(10)
    ELSE IF h <= 12 THEN Minutes(30)
    ELSE IF h <= 24 THEN Hours(1)
    ELSE IF h <= 72 THEN Hours(6)
    ELSE Days(1)

RECURSIVE SumCounts(_)
SumCounts(rows) == IF rows = <<>> THEN 0 ELSE Head(rows).count + SumCounts(Tail(rows))

\* C14: the bucket width depends on lookbackHours alone, by the documented policy:
\* every included event lies within one width of the start of a bucket returned, and
\* the starts of the buckets returned are whole widths apart
C14_WidthByLookback ==
    \A p \in Procs :
        AnalyticsAnswered(p) =>
            LET w == PolicyWidth(req[p].hours)
                rows == res[p].rows
            IN /\ \A i \in Included(p) : \E k \in DOMAIN rows :
                      /\ rows[k].time <= url_clicks[i].clicked_at
                      /\ url_clicks[i].clicked_at < rows[k].time + w
               /\ \A k1, k2 \in DOMAIN rows : (rows[k2].time - rows[k1].time) % w = 0

C14_Witness ==
    /\ AnalyticsAnswered(1)
    /\ req[1].hours = 72
    /\ Len(res[1].rows) = 3

\* C15: every included event is counted in exactly one bucket, whose start is the
\* event's UTC time rounded down to a multiple of the width counted from midnight UTC
C15_CalendarAligned ==
    \A p \in Procs :
        AnalyticsAnswered(p) =>
            LET w == PolicyWidth(req[p].hours)
                rows == res[p].rows
                start(i) == url_clicks[i].clicked_at - (url_clicks[i].clicked_at % w)
            IN /\ \A i \in Included(p) :
                      Cardinality({k \in DOMAIN rows : rows[k].time = start(i)}) = 1
               /\ \A k \in DOMAIN rows :
                      rows[k].count = Cardinality({i \in Included(p) : start(i) = rows[k].time})

\* C16: the output holds only events of the link that lie in the window, is strictly
\* ascending by bucket start, has no bucket of count 0, and its counts add up to the
\* number of the link's events in the window
C16_WindowOrderSparse ==
    \A p \in Procs :
        AnalyticsAnswered(p) =>
            LET w == PolicyWidth(req[p].hours)
                rows == res[p].rows
            IN /\ \A k \in DOMAIN rows :
                      /\ rows[k].count >= 1
                      /\ k > 1 => rows[k - 1].time < rows[k].time
                      /\ \E i \in Included(p) :
                            /\ rows[k].time <= url_clicks[i].clicked_at
                            /\ url_clicks[i].clicked_at < rows[k].time + w
               /\ SumCounts(rows) = Cardinality(Included(p))

C16_Witness ==
    /\ AnalyticsAnswered(1)
    /\ Len(url_clicks) = 3
    /\ Cardinality(Included(1)) = 1
    /\ \E i \in Included(1) : url_clicks[i].clicked_at = now - Hours(req[1].hours)
    /\ \E i, j \in 1..3 : url_clicks[i].url_id # url_clicks[j].url_id
    /\ \A i, j \in 1..3 : url_clicks[i].clicked_at = url_clicks[j].clicked_at => i = j

(***************************************************************************)
(* Properties of the generation path.                                      *)
(***************************************************************************)
\* worker p serves, or has served last, an allocate without a custom code
Generating(p) == req[p].op = "create" /\ req[p].short_code = NoCode

\* the rows inserted since the request of worker p started
Inserted(p) == {r \in urls : r.id > pre[p].made}

Supplying(p) ==
    /\ req[p].op = "create"
    /\ req[p].short_code # NoCode
    /\ (pre[p].off = <<>> \/ pre[p].off[1] >= 0 - SkewSeconds)

\* worker p has answered its request with ValidationError
Rejected(p) == pc[p] = "idle" /\ res[p].kind = "ValidationError"

\* C18, as amended: a supplied, non-empty code is accepted by validation exactly when,
\* once its surrounding white space is trimmed, it has 3 to 20 characters, all of
\* [A-Za-z0-9_-], and its lower-cased form is not reserved; otherwise allocate returns
\* ValidationError
C18_TrimmedCodeRules ==
    \A p \in Procs :
        Supplying(p) => (Rejected(p) <=> ~ SatisfiesCodeRules(TrimSpace(req[p].short_code)))

C18_Witness ==
    /\ Answered(1, "create")
    /\ req[1].short_code = CodeSpaced
    /\ res[1].kind = "ok"
    /\ res[1].short_code = CodeA

\* C18, as stated: a supplied code is accepted by validation exactly when it has 3 to 20
\* characters, all of [A-Za-z0-9_-], and its lower-cased form is not reserved
C18_SuppliedCodeRules ==
    \A p \in Procs :
        Supplying(p) => (Rejected(p) <=> ~ SatisfiesCodeRules(req[p].short_code))

\* C27: an allocate whose supplied code fails validation is answered ValidationError
\* by the step that takes the request, before any call of the cache or of the store:
\* the rows, the click events, the cache entries and the goroutines are as they were
C27_InvalidCodeNoIO ==
    [][\A p \in {1} :
          /\ ops' # ops
          /\ req'[p].op = "create"
          /\ req'[p].short_code # NoCode
          /\ ~ SatisfiesCodeRules(TrimSpace(req'[p].short_code))
          => /\ res'[p].kind = "ValidationError"
             /\ pc'[p] = "idle"
             /\ urls' = urls /\ nextId' = nextId /\ url_clicks' = url_clicks
             /\ cache' = cache /\ tasks' = tasks]_vars

\* a reserved code was refused while the store and the cache held another link
C27_Witness ==
    /\ Answered(1, "create")
    /\ req[1].short_code = CodeReserved
    /\ res[1].kind = "ValidationError"
    /\ \E r \in urls : r.short_code = CodeA
    /\ Sentinel(cache, CodeA, now) = "taken"
    /\ \A r \in urls : r.short_code # CodeReserved
    /\ Sentinel(cache, CodeReserved, now) = "absent"

\* worker p has answered an allocate or an updateExpiry that carried an expires_at
Expiring(p) ==
    /\ pc[p] = "idle"
    /\ req[p].op \in {"create", "update"}
    /\ res[p].kind # "none"
    /\ pre[p].off # <<>>

\* C19: allocate and updateExpiry answer ValidationError to a supplied expires_at
\* exactly when it lies more than 2 seconds before now (the codes supplied here being
\* valid), and the step that answers so changes neither the store nor the cache
C19_ExpiryValidation ==
    /\ [](\A p \in Procs :
            Expiring(p) =>
                (res[p].kind = "ValidationError" <=> pre[p].off[1] < 0 - SkewSeconds))
    /\ [][\A p \in Procs :
            ops' # ops /\ req'[p].op \in {"create", "update"}
                       /\ res'[p].kind = "ValidationError"
                => urls' = urls /\ url_clicks' = url_clicks /\ cache' = cache]_vars

C19_Witness ==
    /\ Expiring(1)
    /\ req[1].op = "update"
    /\ pre[1].off = <<-3>>
    /\ res[1].kind = "ValidationError"
    /\ \E r \in urls : r.short_code = GenA /\ r.user_id = "u1" /\ r.expires_at.isNil

(***************************************************************************)
(* Properties of the operations of an owner.                               *)
(***************************************************************************)
OwnerOps == {"delete", "update", "stats", "analytics"}

\* the answer worker p gives in this step to a request about a code the caller has no
\* row of
Refusing(p) ==
    /\ ops' # ops
    /\ req'[p].op \in OwnerOps
    /\ res'[p].kind # "none"
    /\ ~ pre'[p].owned

\* the expires_at of the request, if any, passes the validation
ExpiryAccepted(off) == off = <<>> \/ off[1] >= 0 - SkewSeconds

\* C21, as amended: delete, stats and analytics, and updateExpiry with an expires_at
\* that passes validation, called for a code of which the caller owns no row, return
\* NotFoundError in one step that leaves the rows, the click events, the cache and the
\* goroutines as they were
C21_NotOwnedChangesNothing ==
    [][\A p \in Procs :
          Refusing(p) /\ ExpiryAccepted(pre'[p].off) =>
              /\ res'[p].kind = "NotFoundError"
              /\ pc'[p] = "idle"
              /\ urls' = urls /\ url_clicks' = url_clicks /\ cache' = cache
              /\ tasks' = tasks]_vars

\* u2 was refused the deletion of the link of u1, which still has its click, its event
\* and its two cache entries
C21_Witness ==
    /\ Answered(1, "delete") /\ res[1].kind = "NotFoundError"
    /\ ~ pre[1].owned /\ pre[1].hadRow
    /\ \E r \in urls : r.short_code = GenA /\ r.user_id = "u1" /\ r.click_count = 1
    /\ Len(url_clicks) = 1
    /\ CacheHas(cache, urlCacheKey(GenA), now)
    /\ Sentinel(cache, GenA, now) = "taken"

\* C21, as stated: delete, updateExpiry, stats and analytics called for a code of which
\* the caller owns no row return NotFoundError and change nothing
C21_NotOwnedNotFound ==
    [][\A p \in Procs :
          Refusing(p) =>
              /\ res'[p].kind = "NotFoundError"
              /\ urls' = urls /\ url_clicks' = url_clicks /\ cache' = cache]_vars

\* the ids of the rows of urls
Ids(rows) == {r.id : r \in rows}

\* C23: click events are append-only: a step leaves url_clicks as it was, or appends
\* one event to it, or deletes rows of urls and with them exactly the events that
\* reference those rows; the events that stay keep their url_id, their clicked_at and
\* their order
C23_AppendOnly ==
    [][\/ url_clicks' = url_clicks
       \/ /\ Len(url_clicks') = Len(url_clicks) + 1
          /\ SubSeq(url_clicks', 1, Len(url_clicks)) = url_clicks
       \/ /\ Ids(urls') \subseteq Ids(urls)
          /\ Ids(urls') # Ids(urls)
          /\ url_clicks' = SelectSeq(url_clicks, LAMBDA e : e.url_id \in Ids(urls'))]_vars

\* the owner has deleted a link that had been resolved: its event went with it
C23_Witness ==
    /\ Answered(1, "delete") /\ res[1].kind = "ok"
    /\ pre[1].cascaded = 1
    /\ url_clicks = <<>>

\* C22: the click_count of a row never decreases while the row exists: every step of
\* every operation leaves it as it was or raises it by exactly 1
C22_ClickCountMonotonic ==
    [][\A r \in urls : \A r2 \in urls' :
          r2.id = r.id => r2.click_count \in {r.click_count, r.click_count + 1}]_vars

\* a link resolved twice, from the store and from the cache
C22_Witness ==
    \E r \in urls : r.click_count = 2 /\ Len(url_clicks) = 2 /\ tasks = EmptyBag

(***************************************************************************)
(* Properties of the recording of clicks.                                  *)
(***************************************************************************)
\* the goroutines of `code` that are at one of the statements `at`
TasksAt(code, at) ==
    BagCardinality([t \in {x \in BagToSet(tasks) : x.code = code /\ x.at \in at} |-> tasks[t]])

\* the requests that found the link of `code` in the store and are at one of `labels`
WorkersAt(code, labels) ==
    Cardinality({p \in Procs : pc[p] \in labels /\ loc[p].code = code})

\* the successful resolutions of `code` whose increment, or whose event, is still to come
IncrementsDue(code) ==
    TasksAt(code, {"sel", "upd"}) + WorkersAt(code, {"r_cache", "r_sel", "r_upd"})

EventsDue(code) ==
    TasksAt(code, {"sel", "upd", "ins"}) + WorkersAt(code, {"r_cache", "r_sel", "r_upd", "r_ins"})

\* the click_count of the link of `code`, and the number of its click events
ClickCount(code) ==
    IF \E r \in urls : r.short_code = code
    THEN (CHOOSE r \in urls : r.short_code = code).click_count ELSE 0

Events(code) ==
    Cardinality({i \in 1..Len(url_clicks) :
                    \E r \in urls : r.short_code = code /\ r.id = url_clicks[i].url_id})

\* this step makes a resolve of `code` succeed: a request is taken and answered at once
\* with the cached target, or the store has shown a live row to a request
Succeeds(code) ==
    \E p \in Procs :
        \/ /\ ops' # ops /\ pc' = pc
           /\ req'[p].op = "resolve" /\ req'[p].short_code = code
           /\ res'[p].kind = "ok"
           /\ \A q \in Procs \ {p} : pre'[q] = pre[q] /\ res'[q] = res[q]
        \/ pc[p] = "r_find" /\ pc'[p] = "r_cache" /\ loc[p].code = code

\* C24: every successful resolution of a link that is not deleted is eventually
\* followed by one increment of click_count and one appended click event of the link:
\* counting the increments and the events still due, click_count and the number of
\* events each grow by exactly one with each successful resolution and by nothing
\* else, and whatever is due is eventually done
C24_EveryClickRecorded ==
    /\ [][\A c \in Codes :
             LET n == IF Succeeds(c) THEN 1 ELSE 0
             IN /\ ClickCount(c)' + IncrementsDue(c)' = ClickCount(c) + IncrementsDue(c) + n
                /\ Events(c)' + EventsDue(c)' = Events(c) + EventsDue(c) + n]_vars
    /\ (\E c \in Codes : EventsDue(c) > 0)
          ~> (\A c \in Codes : EventsDue(c) = 0 /\ IncrementsDue(c) = 0)

\* a link resolved once from the store and once from the cache, both clicks recorded
C24_Witness ==
    /\ Answered(1, "resolve") /\ res[1].kind = "ok" /\ pre[1].urlCached
    /\ \E i, j \in 1..Len(url_clicks) : url_clicks[i].clicked_at < url_clicks[j].clicked_at
    /\ ClickCount(GenA) = 2 /\ Events(GenA) = 2
    /\ EventsDue(GenA) = 0

(***************************************************************************)
(* Properties of the read path.                                            *)
(***************************************************************************)
\* the step in which worker p takes a resolve
TakesResolve(p) == pc[p] = "idle" /\ ops' # ops /\ req'[p].op = "resolve"

\* the url:<code> entry a resolve of `code` finds, if any, and whether its expires_at
\* is in the past
Cached(code) == CacheHas(cache, urlCacheKey(code), now)
CachedPast(code) ==
    LET data == cache[urlCacheKey(code)].val
    IN data.expires_at.json = "string" /\ data.expires_at.rfc3339 < now

\* C28: a resolve that finds a url:<code> entry compares its expires_at with the clock
\* before it uses the target: when the expires_at is in the past nothing is answered
\* and no click is recorded on the word of the entry, the entry is evicted, the store
\* is queried, and the answer is NotFoundError unless the store has a live row, whose
\* target is then returned
C28_CachedExpiryChecked ==
    [][\A p \in {1} :
          /\ TakesResolve(p) /\ Cached(req'[p].short_code) /\ CachedPast(req'[p].short_code)
                => pc'[p] = "r_evict" /\ res'[p].kind = "none" /\ tasks' = tasks
          /\ TakesResolve(p) /\ pc'[p] = "idle"
                => Cached(req'[p].short_code) /\ ~ CachedPast(req'[p].short_code)
          /\ pc[p] = "r_evict" /\ pc'[p] # pc[p]
                => /\ cache'[urlCacheKey(loc[p].code)] = NoEntry
                   /\ pc'[p] = "r_find"
          /\ pc[p] = "r_find" /\ pc'[p] # pc[p]
                => IF FindByShortCode(urls, loc[p].code, now) = {}
                   THEN pc'[p] = "idle" /\ res'[p] = Result("NotFoundError", NoCode, "")
                   ELSE /\ pc'[p] = "r_cache"
                        /\ loc'[p].url \in FindByShortCode(urls, loc[p].code, now)
          /\ pc[p] \in {"r_cache", "r_sel", "r_upd", "r_ins"} /\ pc'[p] = "idle"
                => res'[p] = Result("ok", loc[p].code, loc[p].url.original_url)]_vars

\* the expires_at of a link was removed after its entry was cached; a resolve found the
\* entry, in the past, evicted it and has read the live row from the store
C28_Witness ==
    /\ pc[1] = "r_cache" /\ req[1].op = "resolve"
    /\ pre[1].urlCached
    /\ cache[urlCacheKey(loc[1].code)] = NoEntry
    /\ loc[1].url \in urls /\ loc[1].url.expires_at.isNil

\* C29: a resolve that finds a url:<code> entry that is not expired returns the cached
\* target in the step that reads the cache, without a query of the store, and leaves
\* the recording of the click to a goroutine it starts and does not wait for: the step
\* changes no row and no click event, and no step of a goroutine, whether it records
\* the click or fails to, changes the answer, the request or the position of a worker
C29_HitAnswersAtOnce ==
    [][/\ \A p \in {1} :
             LET c == req'[p].short_code
             IN TakesResolve(p) /\ Cached(c) /\ ~ CachedPast(c) =>
                   /\ pc'[p] = "idle"
                   /\ res'[p] = Result("ok", c, cache[urlCacheKey(c)].val.original_url)
                   /\ tasks' = tasks (+) SetToBag({[code |-> c, at |-> "sel", urlID |-> 0]})
                   /\ urls' = urls /\ url_clicks' = url_clicks /\ cache' = cache
       /\ ops' = ops /\ tasks' # tasks => UNCHANGED <<pc, req, res, loc>>]_vars

\* a resolve was answered from the cache and the click is not recorded yet
C29_Witness ==
    /\ Answered(1, "resolve") /\ res[1].kind = "ok" /\ res[1].url = "https://t1"
    /\ BagCardinality(tasks) = 1
    /\ url_clicks = <<>>
    /\ \E r \in urls : r.short_code = req[1].short_code /\ r.click_count = 0

(***************************************************************************)
(* Properties of the availability check.                                   *)
(***************************************************************************)
\* the step in which worker p learns that its code is not available: the custom path
\* answers ConflictError, the generation path tries another code or gives up
ReportsUnavailable(p) ==
    \/ pc'[p] = "idle" /\ res'[p].kind \in {"ConflictError", "AllocationExhausted"}
    \/ pc'[p] = "a_exists" /\ loc'[p].i = loc[p].i + 1

\* C25: the availability check reports the code unavailable without a query of the
\* store when the sentinel it reads is "taken"; when the sentinel is "available" or
\* absent, or the cache call fails, it goes on to query the store for a live row, and
\* reports unavailable if there is one and available if there is none; the code is
\* never reported available on the word of the cache
C25_AvailabilityCheck ==
    [][\A p \in Procs :
          LET code == loc[p].code
              sentinel == Sentinel(Readable, code, now)
              live == FindByShortCode(urls, code, now) # {}
          IN /\ pc[p] = "a_exists" /\ pc'[p] # pc[p] =>
                   pc'[p] = (IF sentinel = "absent" THEN "a_find" ELSE "a_get")
             /\ pc[p] = "a_get" /\ pc'[p] # pc[p] =>
                   IF sentinel = "taken" THEN ReportsUnavailable(p) ELSE pc'[p] = "a_find"
             /\ pc[p] = "a_find" /\ pc'[p] # pc[p] =>
                   pc'[p] = (IF live THEN "a_setTaken" ELSE "a_setAvail")
             /\ pc[p] = "a_setTaken" /\ pc'[p] # pc[p] => ReportsUnavailable(p)
             /\ pc'[p] = "a_setAvail" /\ pc[p] # pc'[p] => pc[p] = "a_find" /\ ~ live
             /\ pc'[p] = "a_create" /\ pc[p] # pc'[p] => pc[p] = "a_setAvail"]_vars

\* the check has read an "available" sentinel left by an allocate whose later cache
\* writes failed, has queried the store all the same, and has found the live row
C25_Witness ==
    /\ pc[1] = "a_setTaken"
    /\ cacheClient = "ok"
    /\ Sentinel(cache, loc[1].code, now) = "available"
    /\ FindByShortCode(urls, loc[1].code, now) # {}

\* the step of worker p writes `entry` under `key` and nothing else
Writes(key, entry) == cache' = [cache EXCEPT ![key] = entry]

\* C26: the sentinel the allocator writes reflects the determination just made:
\* "available" for 30 seconds after the store query found no live row, "taken" for an
\* hour after the store query found a live row, after the INSERT failed on uniqueness
\* and after the INSERT succeeded, the last followed by a url:<code> entry, for an hour,
\* holding the target and the expires_at of the new row; no other step writes a cache
\* entry, and a step that ends the request on a store error writes none
C26_SentinelReflects ==
    [][\A p \in Procs :
          LET code == loc[p].code
              key == cacheKey(code)
              live == FindByShortCode(urls, code, now) # {}
          IN /\ pc[p] = "a_find" /\ pc'[p] = "a_setAvail" => ~ live
             /\ pc[p] = "a_find" /\ pc'[p] = "a_setTaken" => live
             /\ pc[p] = "a_setAvail" /\ pc'[p] # pc[p] =>
                   Writes(key, [present |-> TRUE, val |-> "available", until |-> now + 30])
             /\ pc[p] = "a_setTaken" /\ (pc'[p] # pc[p] \/ loc'[p] # loc[p]) =>
                   Writes(key, [present |-> TRUE, val |-> "taken", until |-> now + 3600])
             /\ pc[p] = "a_create" /\ pc'[p] = "a_dupTaken" =>
                   urls' = urls /\ \E r \in urls : r.short_code = code
             /\ pc[p] = "a_dupTaken" /\ pc'[p] # pc[p] =>
                   Writes(key, [present |-> TRUE, val |-> "taken", until |-> now + 3600])
             /\ pc[p] = "a_create" /\ pc'[p] = "a_okTaken" =>
                   \E r \in urls' \ urls : r.short_code = code
             /\ pc[p] = "a_okTaken" /\ pc'[p] # pc[p] =>
                   /\ Writes(key, [present |-> TRUE, val |-> "taken", until |-> now + 3600])
                   /\ pc'[p] = "a_okUrl"
             /\ pc[p] = "a_okUrl" /\ pc'[p] # pc[p] =>
                   Writes(urlCacheKey(code),
                          [present |-> TRUE,
                           val |-> [original_url |-> req[p].url,
                                    expires_at |-> MarshalTime(req[p].expires_at)],
                           until |-> now + 3600])
             /\ pc[p] # "idle" /\ pc'[p] = "idle" /\ res'[p].kind = "StoreError" =>
                   cache' = cache
             /\ pc[p] \notin {"a_setAvail", "a_setTaken", "a_dupTaken", "a_okTaken", "a_okUrl"}
                /\ (pc'[p] # pc[p] \/ req'[p] # req[p]) => cache' = cache]_vars

\* the store query of one allocate has failed after the other one, finding no live row,
\* had written the "available" sentinel, which stands
C26_Witness ==
    \E p, q \in Procs :
        /\ Answered(p, "create") /\ res[p].kind = "StoreError"
        /\ req[p].short_code = GenA
        /\ pc[q] = "a_create" /\ loc[q].code = GenA
        /\ cache[cacheKey(GenA)] = [present |-> TRUE, val |-> "available", until |-> now + 30]

\* C30: a resolve that found a live row in the store, after a miss or after the
\* eviction of an expired entry, first writes the url:<code> entry with the target and
\* the expires_at of the row, for an hour, then raises the click_count of the row by
\* one, then appends one click event of the row, and only then returns the target of
\* the row; it starts no goroutine
C30_StorePathOrder ==
    [][\A p \in {1} :
          LET code == loc[p].code
              row == loc[p].url
          IN /\ pc[p] = "r_cache" /\ pc'[p] # pc[p] =>
                   /\ Writes(urlCacheKey(code),
                             [present |-> TRUE,
                              val |-> [original_url |-> row.original_url,
                                       expires_at |-> MarshalTime(row.expires_at)],
                              until |-> now + 3600])
                   /\ pc'[p] = "r_sel"
                   /\ urls' = urls /\ url_clicks' = url_clicks
             /\ pc[p] = "r_sel" /\ pc'[p] # pc[p] =>
                   /\ pc'[p] = "r_upd"
                   /\ urls' = urls /\ url_clicks' = url_clicks /\ cache' = cache
             /\ pc[p] = "r_upd" /\ pc'[p] # pc[p] =>
                   /\ urls' = (urls \ {r \in urls : r.id = row.id})
                                \cup {[r EXCEPT !.click_count = r.click_count + 1] :
                                         r \in {x \in urls : x.id = row.id}}
                   /\ urls' # urls
                   /\ pc'[p] = "r_ins"
                   /\ url_clicks' = url_clicks /\ cache' = cache
             /\ pc[p] = "r_ins" /\ pc'[p] # pc[p] =>
                   /\ url_clicks' = Append(url_clicks, [url_id |-> row.id, clicked_at |-> now])
                   /\ pc'[p] = "idle"
                   /\ res'[p] = Result("ok", code, row.original_url)
                   /\ urls' = urls /\ cache' = cache
             /\ pc[p] \in {"r_find", "r_cache", "r_sel", "r_upd", "r_ins"} /\ pc'[p] # pc[p]
                   => tasks' = tasks]_vars

\* a link whose cache entry had lapsed was resolved from the store: the entry is back,
\* the click is counted and logged, and the target is returned
C30_Witness ==
    /\ Answered(1, "resolve") /\ res[1].kind = "ok" /\ res[1].url = "https://t1"
    /\ ~ pre[1].urlCached
    /\ CacheHas(cache, urlCacheKey(req[1].short_code), now)
    /\ cache[urlCacheKey(req[1].short_code)].val.original_url = "https://t1"
    /\ \E r \in urls : r.short_code = req[1].short_code /\ r.click_count = 1
    /\ Len(url_clicks) = 1 /\ url_clicks[1].clicked_at = now
    /\ tasks = EmptyBag

\* a statement of the worker's IncrementClickCount failed, or found no row
RecordingFails(p) ==
    /\ pc[p] \in {"r_sel", "r_upd", "r_ins"} /\ pc'[p] = "idle"
    /\ ~ (pc[p] = "r_ins" /\ url_clicks' # url_clicks)

\* a goroutine ended before its INSERT was done
TaskFails ==
    /\ pc' = pc /\ now' = now
    /\ BagCardinality(tasks') < BagCardinality(tasks)
    /\ url_clicks' = url_clicks

\* C31: a failure of click recording never fails the redirect: when a statement of
\* IncrementClickCount fails after the store returned a live row, the resolve still
\* answers with the target of that row, and when it fails in the goroutine of a valid
\* cache hit the answer already given stands; a failure of the event insert leaves the
\* click_count the update raised as it is
C31_RecordingNeverFailsRedirect ==
    [][/\ \A p \in {1} :
             /\ RecordingFails(p) => res'[p] = Result("ok", loc[p].code, loc[p].url.original_url)
             /\ RecordingFails(p) /\ pc[p] = "r_ins" =>
                   /\ urls' = urls
                   /\ \E r \in urls' : r.short_code = loc[p].code /\ r.click_count > 0
       /\ TaskFails => res' = res /\ urls' = urls]_vars

\* a link was resolved from the store, its click_count was raised and the insert of
\* the event failed: the target was returned and the count stays
C31_Witness ==
    /\ Answered(1, "resolve") /\ res[1] = Result("ok", GenA, "https://t1")
    /\ ~ pre[1].urlCached
    /\ \E r \in urls : r.short_code = GenA /\ r.click_count = 1
    /\ url_clicks = <<>>
    /\ tasks = EmptyBag

\* the store has a row of the code, and every row of the code has expired
ExpiredOnly(code) ==
    /\ \E r \in urls : r.short_code = code
    /\ \A r \in urls : r.short_code = code => ~ r.expires_at.isNil /\ r.expires_at.t <= now

\* worker p takes a step of an allocate of a custom code whose rows, none of them
\* inserted by this allocate, have all expired
AllocatesExpired(p) ==
    /\ req[p].op = "create" /\ req[p].short_code # NoCode
    /\ pc[p] \notin {"idle", "a_okTaken", "a_okUrl"} /\ pc'[p] # pc[p]
    /\ ExpiredOnly(loc[p].code)

\* the allocate ends with ConflictError and a "taken" sentinel of the code in the cache
RefusedAsTaken(p) ==
    /\ pc'[p] = "idle" /\ res'[p].kind = "ConflictError"
    /\ Sentinel(cache', loc[p].code, now') = "taken"

EventsOf(row) == {i \in DOMAIN url_clicks : url_clicks[i].url_id = row.id}

\* C35: in every reachable state, whatever the interleaving of resolutions, of their
\* goroutines and of deletions and allocations of the code, every row of urls has a
\* click_count at least as large as the number of click events that reference it
C35_CountCoversEvents ==
    \A r \in urls : r.click_count >= Cardinality(EventsOf(r))

\* two clicks of one link are being recorded at once: both increments are done, one
\* event is written and the other is still to come
C35_Witness ==
    /\ \E r \in urls : r.click_count = 2 /\ Cardinality(EventsOf(r)) = 1
    /\ \E t \in BagToSet(tasks) : t.at = "ins"

\* the ids of the rows whose click_count the step raises
Raised == {r.id : r \in {x \in urls : \E y \in urls' : y.id = x.id /\ y.click_count > x.click_count}}

\* the ids read by the recordings, synchronous or detached, that run their UPDATE in
\* the step
Updating ==
    {loc[p].urlID : p \in {q \in Procs : pc[q] = "r_upd" /\ pc'[q] = "r_ins"}}
    \cup {t.urlID : t \in {u \in BagToSet(tasks) : u.at = "upd" /\ tasks' # tasks /\ pc' = pc}}

\* C36: every increment of a click_count is applied to the row of the link that was
\* resolved: the row raised by the UPDATE of a click recording is the row whose id the
\* recording read, also when the link was deleted and its code allocated again for a
\* new link between the two statements
C36_IncrementHitsResolvedRow ==
    [][Raised \subseteq Updating]_vars

(***************************************************************************)
(* Properties of the configuration.                                        *)
(***************************************************************************)
\* C20: when no rate-limit variable is set, the limiters of the general, auth and
\* shorten route classes admit the first request of a new identity
C20_DefaultsAdmitFirst ==
    environ = NoEnviron /\ rl.route \in {"general", "auth", "shorten"} =>
        \A ip \in IPs : seen[ip].buckets = 1 /\ seen[ip].n = 1 => seen[ip].last = "admit"


(***************************************************************************)
(* Reserved words and the rows of the store.                               *)
(***************************************************************************)
\* C39: no row stored by allocate has a code whose lower-cased form is a reserved
\* word, whether the code was supplied by the caller or generated
C39_NoReservedRow ==
    \A r \in urls : ToLower(r.short_code) \notin reservedCodes

(***************************************************************************)
(* The cache after a delete that raced with other requests.                *)
(***************************************************************************)
\* C40: once a delete of a code has succeeded and every request that ran beside it has
\* finished, the cache holds neither the url entry nor a "taken" sentinel of the code
\* unless the store holds a row of the code again
C40_NoWriteBackAfterDelete ==
    \A c \in Codes :
        /\ \A p \in Procs : pc[p] = "idle"
        /\ hist[c].deleted # "no"
        /\ ~ \E r \in urls : r.short_code = c
        => /\ ~ Cached(c)
           /\ Sentinel(cache, c, now) # "taken"
====
